---- MODULE Spec2Model ----
(***************************************************************************)
(* A model of the oxwm window manager: the client registry (client.rs),    *)
(* the ICCCM property codecs (atom.rs) and the event loop (main.rs).       *)
(***************************************************************************)
EXTENDS Integers, Sequences, FiniteSets, TLC

VARIABLES
    stack,      \* Clients.stack: the window stack, bottom first
    focus,      \* Clients.focus: Option<Window>
    drag,       \* OxWM.drag: Option<Drag>
    keep_going, \* OxWM.keep_going
    outcome,    \* "running", "panic" (an unwrap or assertion failed), "err", "ok"
    last,       \* the operation performed last, with its arguments and result
    hist,       \* accounting: initial length, pushes, removes, inputs taken
    config,     \* OxWM.config: the focus model; and whether the build checks overflow
    srv,        \* the X server: stacking order, windows, input focus, pointer grab
    queue       \* the events the server has sent and the loop has not read yet

vars == <<stack, focus, drag, keep_going, outcome, last, hist, config, srv, queue>>

(***************************************************************************)
(* Bounds.                                                                 *)
(***************************************************************************)
MaxWindows == 3     \* window ids are 1..MaxWindows
MaxPushes == 2      \* pushes counted by the registry harness
MaxRemoves == 2     \* removes counted by the registry harness
MaxWord == 4        \* 32-bit property words are 0..MaxWord
MaxSamples == 2     \* applications of the resize arithmetic in SpecResize
MaxBurst == 4       \* inputs of the environment in SpecBurst and SpecCtl
MaxCalls == 2       \* ls calls of oxctl in SpecCtl
MaxProp == 3        \* longest property payload, in words

Windows == 1..MaxWindows
Words == 0..MaxWord

(***************************************************************************)
(* Option and Result.                                                      *)
(***************************************************************************)
None == <<>>
Some(x) == <<x>>
Ok(x) == [ok |-> TRUE, val |-> x]
Err == [ok |-> FALSE]

Min(a, b) == IF a < b THEN a ELSE b
SeqsUpTo(S, n) == UNION {[1..k -> S] : k \in 0..n}

(***************************************************************************)
(* atom.rs: WM_STATE.                                                      *)
(***************************************************************************)
WmStateStates == {"Withdrawn", "Normal", "Iconic"}

WmStateState_into_u32_Gapless(value) ==
    CASE value = "Withdrawn" -> 0
      [] value = "Normal" -> 1
      [] value = "Iconic" -> 2

WmStateState_into_u32(value) ==
    CASE value = "Withdrawn" -> 0
      [] value = "Normal" -> 1
      [] value = "Iconic" -> 3

WmStateState_try_from_Lenient(value) ==
    CASE value = 0 -> Ok("Withdrawn")
      [] value = 1 -> Ok("Normal")
      [] value = 3 -> Ok("Iconic")
      [] OTHER -> Ok("Normal")

WmStateState_try_from(value) ==
    CASE value = 0 -> Ok("Withdrawn")
      [] value = 1 -> Ok("Normal")
      [] value = 3 -> Ok("Iconic")
      [] OTHER -> Err

WmState_into_words(value) ==
    <<WmStateState_into_u32(value.state), value.icon>>

WmState_try_from(value) ==
    IF Len(value) = 2
    THEN LET st == WmStateState_try_from(value[1])
         IN  IF st.ok THEN Ok([state |-> st.val, icon |-> value[2]]) ELSE Err
    ELSE Err

(***************************************************************************)
(* The server's answer to get_property(window, property, type, 0, length): *)
(* format 0 and no data when the property is absent, otherwise at most     *)
(* `long_length` words of it.  A property is None or Some(words).          *)
(***************************************************************************)
get_property(prop, long_length) ==
    IF prop = None
    THEN [format |-> 0, value |-> <<>>]
    ELSE [format |-> 32,
          value |-> SubSeq(prop[1], 1, Min(Len(prop[1]), long_length))]

\* GetPropertyReply::value32: None unless the format is 32
value32(reply) == IF reply.format = 32 THEN Some(reply.value) ELSE None

WmStateReplyLength == 2

\* Atoms::get_wm_state; `exists` is whether the request reaches a window
get_wm_state(exists, prop) ==
    IF ~exists THEN Err
    ELSE LET reply == value32(get_property(prop, WmStateReplyLength))
         IN  IF reply = None THEN Ok(None)
             ELSE LET x == WmState_try_from(reply[1])
                  IN  IF x.ok THEN Ok(Some(x.val)) ELSE Ok(None)

(***************************************************************************)
(* atom.rs: WM_PROTOCOLS.                                                  *)
(***************************************************************************)
wm_delete_window == "WM_DELETE_WINDOW"
wm_protocols == "WM_PROTOCOLS"
wm_save_yourself == "WM_SAVE_YOURSELF"
wm_state == "WM_STATE"
wm_take_focus == "WM_TAKE_FOCUS"
OtherAtom == "_NET_WM_PING"

ProtocolAtoms == {wm_delete_window, wm_save_yourself, wm_take_focus, OtherAtom}

WmProtocols_new == [take_focus |-> FALSE, delete_window |-> FALSE]

\* one turn of the loop over the reply's atoms
classify_SaveYourselfDeletes(ret, atom) ==
    IF atom = wm_take_focus THEN [ret EXCEPT !.take_focus = TRUE]
    ELSE IF atom = wm_save_yourself THEN [ret EXCEPT !.delete_window = TRUE]
    ELSE IF atom = wm_delete_window THEN [ret EXCEPT !.delete_window = TRUE]
    ELSE ret

classify(ret, atom) ==
    IF atom = wm_take_focus THEN [ret EXCEPT !.take_focus = TRUE]
    ELSE IF atom = wm_save_yourself THEN ret
    ELSE IF atom = wm_delete_window THEN [ret EXCEPT !.delete_window = TRUE]
    ELSE ret

RECURSIVE classify_all(_, _)
classify_all(ret, atoms) ==
    IF atoms = <<>> THEN ret
    ELSE classify_all(classify(ret, Head(atoms)), Tail(atoms))

WmProtocolsReplyLength == 1000000

\* Atoms::get_wm_protocols
get_wm_protocols(exists, prop) ==
    IF ~exists THEN Err
    ELSE LET reply == value32(get_property(prop, WmProtocolsReplyLength))
         IN  IF reply = None THEN Ok(WmProtocols_new)
             ELSE Ok(classify_all(
                      [take_focus |-> FALSE, delete_window |-> FALSE], reply[1]))

(***************************************************************************)
(* client.rs: the registry.  Vec indices are 0-based as in the source.     *)
(***************************************************************************)
VecRemove(v, i) == SubSeq(v, 1, i) \o SubSeq(v, i + 2, Len(v))
VecInsert(v, i, e) == SubSeq(v, 1, i) \o <<e>> \o SubSeq(v, i + 1, Len(v))

has_client(stk, window) == \E i \in 1..Len(stk) : stk[i].window = window

\* Clients::get_with_index: the index of the first client with this window;
\* the caller has established has_client (the source unwraps)
get_with_index(stk, window) ==
    CHOOSE i \in 0..(Len(stk) - 1) :
        /\ stk[i + 1].window = window
        /\ \A j \in 0..(i - 1) : stk[j + 1].window # window

get(stk, window) == stk[get_with_index(stk, window) + 1]

top(stk) == stk[Len(stk)]

\* The registry operations yield [panic, stack, focus]: the registry as the
\* operation leaves it, and whether an unwrap failed on the way.
Reg(p, stk, foc) == [panic |-> p, stack |-> stk, focus |-> foc]

move_to_above_NoRemove(stk, foc, window, sibling) ==
    IF ~has_client(stk, window) THEN Reg(TRUE, stk, foc)
    ELSE LET i == get_with_index(stk, window)
         IN  IF i > 0 /\ stk[i].window = sibling THEN Reg(FALSE, stk, foc)
             ELSE IF ~has_client(stk, sibling) THEN Reg(TRUE, stk, foc)
             ELSE Reg(FALSE,
                      VecInsert(stk, get_with_index(stk, sibling) + 1, stk[i + 1]),
                      foc)

move_to_above_BelowSibling(stk, foc, window, sibling) ==
    IF ~has_client(stk, window) THEN Reg(TRUE, stk, foc)
    ELSE LET i == get_with_index(stk, window)
         IN  IF i > 0 /\ stk[i].window = sibling THEN Reg(FALSE, stk, foc)
             ELSE LET client == stk[i + 1]
                      rest == VecRemove(stk, i)
                  IN  IF ~has_client(rest, sibling) THEN Reg(TRUE, rest, foc)
                      ELSE Reg(FALSE,
                               VecInsert(rest, get_with_index(rest, sibling), client),
                               foc)

move_to_above(stk, foc, window, sibling) ==
    IF ~has_client(stk, window) THEN Reg(TRUE, stk, foc)
    ELSE LET i == get_with_index(stk, window)
         IN  IF i > 0 /\ stk[i].window = sibling THEN Reg(FALSE, stk, foc)
             ELSE LET client == stk[i + 1]
                      rest == VecRemove(stk, i)
                  IN  IF ~has_client(rest, sibling) THEN Reg(TRUE, rest, foc)
                      ELSE Reg(FALSE,
                               VecInsert(rest, get_with_index(rest, sibling) + 1, client),
                               foc)

move_to_bottom(stk, foc, window) ==
    IF stk = <<>> THEN Reg(TRUE, stk, foc)
    ELSE IF stk[1].window = window THEN Reg(FALSE, stk, foc)
    ELSE IF ~has_client(stk, window) THEN Reg(TRUE, stk, foc)
    ELSE LET i == get_with_index(stk, window)
         IN  Reg(FALSE, VecInsert(VecRemove(stk, i), 0, stk[i + 1]), foc)

move_to_top(stk, foc, window) ==
    IF stk = <<>> THEN Reg(TRUE, stk, foc)
    ELSE IF top(stk).window = window THEN Reg(FALSE, stk, foc)
    ELSE IF ~has_client(stk, window) THEN Reg(TRUE, stk, foc)
    ELSE LET i == get_with_index(stk, window)
         IN  Reg(FALSE, Append(VecRemove(stk, i), stk[i + 1]), foc)

\* Clients::push; its debug assertion is push_assertion
push_assertion(stk, client) == ~has_client(stk, client.window)
push(stk, foc, client) == Reg(FALSE, Append(stk, client), foc)

remove_KeepFocus(stk, foc, window) ==
    IF ~has_client(stk, window) THEN Reg(TRUE, stk, foc)
    ELSE Reg(FALSE, VecRemove(stk, get_with_index(stk, window)), foc)

remove_KeepsFocus(stk, foc, window) ==
    IF ~has_client(stk, window) THEN Reg(TRUE, stk, foc)
    ELSE Reg(FALSE, VecRemove(stk, get_with_index(stk, window)), foc)

remove(stk, foc, window) ==
    IF ~has_client(stk, window) THEN Reg(TRUE, stk, foc)
    ELSE Reg(FALSE, VecRemove(stk, get_with_index(stk, window)),
             IF foc = Some(window) THEN None ELSE foc)

\* Clients::set_focus; its debug assertion is set_focus_assertion
set_focus_assertion(stk, window) ==
    IF window = None THEN TRUE ELSE has_client(stk, window[1])
set_focus(stk, foc, window) == Reg(FALSE, stk, window)

(***************************************************************************)
(* Client records.                                                         *)
(***************************************************************************)
Client(window, state) == [window |-> window, state |-> state]

ClientState(x, y, width, height, is_viewable, protocols, state, hints) ==
    [x |-> x, y |-> y, width |-> width, height |-> height,
     is_viewable |-> is_viewable, wm_protocols |-> protocols,
     wm_state |-> state, wm_normal_hints |-> hints]

\* WmSizeHints::new: no hint is given
WmSizeHints_new ==
    [min_size |-> None, max_size |-> None, base_size |-> None,
     size_increment |-> None]

\* the clients of the registry's unit test
TestClientState ==
    ClientState(1, 1, 10, 10, TRUE, WmProtocols_new, None, WmSizeHints_new)

Distinct(stk) ==
    \A i, j \in 1..Len(stk) : i # j => stk[i].window # stk[j].window

WindowsOf(stk) == {stk[i].window : i \in 1..Len(stk)}

(***************************************************************************)
(* The X server, as far as the manager can see it.  srv.stack lists the    *)
(* root's children bottom first; srv.win[w] holds for a live window its    *)
(* override-redirect flag, map state, geometry, whether the manager has    *)
(* installed its button grabs and event mask on it (`selected`), and the   *)
(* three properties; srv.focus is the input focus (NONE: pointer root) and *)
(* srv.grab the window holding the manager's active pointer grab, with the *)
(* number of buttons held; srv.redirect names the client that has selected *)
(* SubstructureRedirect on the root ("none", "other" or "oxwm").  Every     *)
(* request is answered before the next.                                    *)
(***************************************************************************)
NONE == 0

\* the root window: a window id that is no top-level window
Root == MaxWindows + 1

Geom(x, y, width, height) == [x |-> x, y |-> y, width |-> width, height |-> height]

DeadWin ==
    [or |-> FALSE, mapped |-> FALSE, geom |-> Geom(0, 0, 0, 0), selected |-> FALSE,
     protocols |-> None, hints |-> None, wm_state |-> None]

NoGrab == [window |-> NONE, buttons |-> 0]

NoServer ==
    [stack |-> <<>>, win |-> [w \in Windows |-> DeadWin], focus |-> NONE,
     grab |-> NoGrab, redirect |-> "none"]

Live(s, w) == \E i \in 1..Len(s.stack) : s.stack[i] = w
Viewable(s, w) == Live(s, w) /\ s.win[w].mapped

IndexIn(stk, w) == CHOOSE i \in 1..Len(stk) : stk[i] = w
Drop(stk, w) == SelectSeq(stk, LAMBDA v : v # w)

\* the window just below w, as ConfigureNotify reports it
AboveSibling(stk, w) ==
    IF IndexIn(stk, w) = 1 THEN NONE ELSE stk[IndexIn(stk, w) - 1]

Restack(stk, w, sibling, mode) ==
    LET rest == Drop(stk, w)
    IN  IF sibling = None
        THEN IF mode = "Above" THEN Append(rest, w) ELSE <<w>> \o rest
        ELSE LET j == IndexIn(rest, sibling[1])
             IN  IF mode = "Above"
                 THEN SubSeq(rest, 1, j) \o <<w>> \o SubSeq(rest, j + 1, Len(rest))
                 ELSE SubSeq(rest, 1, j - 1) \o <<w>> \o SubSeq(rest, j, Len(rest))

\* ConfigureWindowAux: every field is optional
Aux(x, y, width, height, sibling, stack_mode) ==
    [x |-> x, y |-> y, width |-> width, height |-> height,
     sibling |-> sibling, stack_mode |-> stack_mode]

OrElse(opt, default) == IF opt = None THEN default ELSE opt[1]

\* events
Ev(type, window) == [type |-> type, window |-> window]

ConfigureNotifyEv(s, w) ==
    [type |-> "ConfigureNotify", window |-> w,
     above_sibling |-> AboveSibling(s.stack, w),
     x |-> s.win[w].geom.x, y |-> s.win[w].geom.y,
     width |-> s.win[w].geom.width, height |-> s.win[w].geom.height]

PropertyNotifyEv(w, atom) == [type |-> "PropertyNotify", window |-> w, atom |-> atom]

\* an answer of the server: whether the request succeeded, the server after
\* it, and the events it sent to the manager
Answer(ok, s, events) == [ok |-> ok, srv |-> s, events |-> events]
Refused(s) == Answer(FALSE, s, <<>>)

\* the focus moves to `w` (NONE: it reverts to the pointer root)
FocusMoves(s, w) ==
    IF s.focus = w THEN Answer(TRUE, s, <<>>)
    ELSE Answer(TRUE, [s EXCEPT !.focus = w],
                (IF s.focus \in Windows /\ s.win[s.focus].selected
                 THEN <<Ev("FocusOut", s.focus)>> ELSE <<>>)
                \o (IF w # NONE /\ s.win[w].selected
                    THEN <<Ev("FocusIn", w)>> ELSE <<>>))

\* the server reads a 32-bit value of a request as the type of the field
Card16(v) == v % 65536
Int16(v) == ((v + 32768) % 65536) - 32768

XSetInputFocus(s, w) ==
    IF ~Viewable(s, w) THEN Refused(s) ELSE FocusMoves(s, w)

XConfigureWindow(s, w, aux) ==
    IF ~Live(s, w) THEN Refused(s)
    ELSE IF aux.sibling # None /\ aux.stack_mode = None THEN Refused(s)
    ELSE IF aux.sibling # None /\ (aux.sibling[1] = w \/ ~Live(s, aux.sibling[1]))
    THEN Refused(s)
    ELSE IF Card16(OrElse(aux.width, 1)) = 0 \/ Card16(OrElse(aux.height, 1)) = 0
    THEN Refused(s)
    ELSE LET g == s.win[w].geom
             g2 == Geom(Int16(OrElse(aux.x, g.x)), Int16(OrElse(aux.y, g.y)),
                        Card16(OrElse(aux.width, g.width)),
                        Card16(OrElse(aux.height, g.height)))
             stk2 == IF aux.stack_mode = None THEN s.stack
                     ELSE Restack(s.stack, w, aux.sibling, aux.stack_mode[1])
             s2 == [s EXCEPT !.win[w].geom = g2, !.stack = stk2]
         IN  Answer(TRUE, s2,
                    IF s2 = s THEN <<>> ELSE <<ConfigureNotifyEv(s2, w)>>)

\* a window stops being viewable: it loses the focus and the pointer grab
Unviewable(s, w) ==
    LET f == IF s.focus = w THEN FocusMoves(s, NONE) ELSE Answer(TRUE, s, <<>>)
    IN  Answer(TRUE,
               [f.srv EXCEPT !.grab = IF @.window = w THEN NoGrab ELSE @],
               f.events)

XMapWindow(s, w) ==
    IF ~Live(s, w) THEN Refused(s)
    ELSE IF s.win[w].mapped THEN Answer(TRUE, s, <<>>)
    ELSE Answer(TRUE, [s EXCEPT !.win[w].mapped = TRUE], <<Ev("MapNotify", w)>>)

XUnmapWindow(s, w) ==
    IF ~Live(s, w) THEN Refused(s)
    ELSE IF ~s.win[w].mapped THEN Answer(TRUE, s, <<>>)
    ELSE LET u == Unviewable([s EXCEPT !.win[w].mapped = FALSE], w)
         IN  Answer(TRUE, u.srv, <<Ev("UnmapNotify", w)>> \o u.events)

XDestroyWindow(s, w) ==
    IF ~Live(s, w) THEN Refused(s)
    ELSE LET u == XUnmapWindow(s, w)
         IN  Answer(TRUE,
                    [u.srv EXCEPT !.stack = Drop(@, w), !.win[w] = DeadWin],
                    u.events \o <<Ev("DestroyNotify", w)>>)

\* change_property32 of WM_STATE
XChangeWmState(s, w, words) ==
    IF ~Live(s, w) THEN Refused(s)
    ELSE Answer(TRUE, [s EXCEPT !.win[w].wm_state = Some(words)],
                IF s.win[w].selected THEN <<PropertyNotifyEv(w, wm_state)>> ELSE <<>>)

\* the three grab_button requests and the event mask of manage()
XGrabAndSelect(s, w) ==
    IF ~Live(s, w) THEN Refused(s)
    ELSE Answer(TRUE, [s EXCEPT !.win[w].selected = TRUE], <<>>)

\* kill_client closes the owner's connection, which destroys its window
XKillClient(s, w) == XDestroyWindow(s, w)

\* change_window_attributes on the root with SUBSTRUCTURE_REDIRECT in the
\* mask: only one client at a time may select it
XSelectRedirect(s) ==
    IF s.redirect = "other" THEN Refused(s)
    ELSE Answer(TRUE, [s EXCEPT !.redirect = "oxwm"], <<>>)

\* requests without an effect on this model's state: send_event, allow_events
XSendEvent(s, w) == IF ~Live(s, w) THEN Refused(s) ELSE Answer(TRUE, s, <<>>)
XAllowEvents(s) == Answer(TRUE, s, <<>>)

(***************************************************************************)
(* main.rs: the manager.  A handler works on a machine record: the         *)
(* manager's fields, the server, and what the turn has produced so far     *)
(* (the requests issued and the events the server sent in answer).         *)
(* outcome becomes "panic" when an unwrap or an assertion fails and "err"  *)
(* when run() returns an error.                                            *)
(***************************************************************************)
\* `as i16`
I16(v) == ((v + 32768) % 65536) - 32768

MIN_WIDTH == 128
MAX_WIDTH == 16384
MIN_HEIGHT == 128
MAX_HEIGHT == 16384

Max(a, b) == IF a > b THEN a ELSE b

\* a u32 is kept as the 32-bit integer with the same bits, so that a cast
\* between i32 and u32 changes nothing; what differs is the order
ULess(a, b) == IF (a < 0) = (b < 0) THEN a < b ELSE b < 0
UMax(a, b) == IF ULess(a, b) THEN b ELSE a
UMin(a, b) == IF ULess(a, b) THEN a ELSE b

\* a - b in 32 bits, wrapping
WrapSub(a, b) ==
    IF b >= 0
    THEN IF a >= (b - 2147483647) - 1 THEN a - b
         ELSE (((a + 2147483647) - b) + 2147483647) + 2
    ELSE IF a <= 2147483647 + b THEN a - b
         ELSE ((a - 2147483647) - (b + 2147483647)) - 2

AddMod(a, b, n) == IF a >= n - b THEN a - (n - b) ELSE a + b

\* 2^32 mod n, for 0 < n
TwoTo32Mod(n) ==
    LET r == ((2147483647 % n) + 1) % n IN AddMod(r, r, n)

\* d mod n on u32, n # 0
UMod(d, n) ==
    IF n < 0 THEN (IF ULess(d, n) THEN d ELSE WrapSub(d, n))
    ELSE IF d >= 0 THEN d % n
    ELSE AddMod(d % n, TwoTo32Mod(n), n)

Panic(m) == [m EXCEPT !.outcome = "panic"]
Failed(m) == [m EXCEPT !.outcome = "err"]

\* a request and its answer: r.ok is what check() or reply() returns
Send(m, req, answer) ==
    [ok |-> answer.ok,
     m |-> [m EXCEPT !.srv = answer.srv,
                     !.events = @ \o answer.events,
                     !.reqs = Append(@, req)]]

\* the `?` operator on a request-level error: run() returns the error
Try(r) == IF r.m.outcome = "panic" THEN r.m ELSE Failed(r.m)

Req(name, window) == [req |-> name, window |-> window]

ConfigureReq(window, aux) ==
    [req |-> "configure_window", window |-> window, aux |-> aux]

\* OxWM::focus
OxWM_focus_Eager(m, window) ==
    Send([m EXCEPT !.focus = Some(window)], Req("set_input_focus", window),
         XSetInputFocus(m.srv, window))

OxWM_focus(m, window) ==
    Send(m, Req("set_input_focus", window), XSetInputFocus(m.srv, window))

\* OxWM::raise
raise_Speculative(m, window) ==
    LET aux == Aux(None, None, None, None, None, Some("Above"))
        r == Send(m, ConfigureReq(window, aux), XConfigureWindow(m.srv, window, aux))
    IN  IF ~has_client(m.stack, window) THEN r
        ELSE [r EXCEPT !.m.stack = move_to_top(m.stack, m.focus, window).stack]

raise(m, window) ==
    LET aux == Aux(None, None, None, None, None, Some("Above"))
    IN  Send(m, ConfigureReq(window, aux), XConfigureWindow(m.srv, window, aux))

\* OxWM::click
click_RaiseFirst(m, window) ==
    LET f == raise(m, window)
    IN  IF ~f.ok THEN f ELSE OxWM_focus(f.m, window)

click(m, window) ==
    LET f == OxWM_focus(m, window)
    IN  IF ~f.ok THEN f ELSE raise(f.m, window)

\* Atoms::set_wm_state
set_wm_state(m, window, state) ==
    Send(m, [req |-> "change_property", window |-> window, property |-> wm_state,
             value |-> WmState_into_words(state)],
         XChangeWmState(m.srv, window, WmState_into_words(state)))

\* Atoms::get_wm_normal_hints: an absent or malformed property gives the defaults
get_wm_normal_hints(exists, prop) ==
    IF ~exists THEN Err
    ELSE IF prop = None THEN Ok(WmSizeHints_new) ELSE Ok(prop[1])

\* Client::override_redirect
override_redirect(client) == client.state # None

min_size(st) == OrElse(st.wm_normal_hints.min_size, <<MIN_WIDTH, MIN_HEIGHT>>)
max_size(st) == OrElse(st.wm_normal_hints.max_size, <<MAX_WIDTH, MAX_HEIGHT>>)

clamp_MinOnly(v, lo, hi) == UMax(v, lo)

\* w.max(min as u32).min(max as u32)
clamp(v, lo, hi) == UMin(UMax(v, lo), hi)

clamp_size(aux, st) ==
    [aux EXCEPT
        !.width = IF @ = None THEN None
                  ELSE Some(clamp(@[1], min_size(st)[1], max_size(st)[1])),
        !.height = IF @ = None THEN None
                   ELSE Some(clamp(@[1], min_size(st)[2], max_size(st)[2]))]

\* OxWM::manage; the result is [ok, m]
manage(m, client) ==
    IF client.state = None THEN [ok |-> FALSE, m |-> Panic(m)]
    ELSE
    LET st == client.state[1]
        window == client.window
        value_list ==
            clamp_size(Aux(None, None, Some(st.width), Some(st.height),
                           None, None), st)
        c == Send(m, ConfigureReq(window, value_list),
                  XConfigureWindow(m.srv, window, value_list))
        a == Send(c.m, Req("get_window_attributes", window),
                  IF Live(c.m.srv, window) THEN Answer(TRUE, c.m.srv, <<>>)
                  ELSE Refused(c.m.srv))
        state == IF Viewable(a.m.srv, window) THEN "Normal" ELSE "Withdrawn"
        w == set_wm_state(a.m, window, [state |-> state, icon |-> NONE])
        g == Send(w.m, Req("grab_buttons_and_select", window),
                  XGrabAndSelect(w.m.srv, window))
    IN  IF ~c.ok THEN c
        ELSE IF ~a.ok THEN a
        ELSE IF ~w.ok THEN w
        ELSE g

\* Corner::relative
relative_Origin(corner, st) == <<0, 0>>

relative(corner, st) ==
    CASE corner = "LeftTop" -> <<0, 0>>
      [] corner = "LeftBottom" -> <<0, I16(st.height)>>
      [] corner = "RightTop" -> <<I16(st.width), 0>>
      [] corner = "RightBottom" -> <<I16(st.width), I16(st.height)>>

Move == <<"Move">>
Resize(corner) == <<"Resize", corner>>

Drag(type_, window, x, y) == [type_ |-> type_, window |-> window, x |-> x, y |-> y]

\* OxWM::begin_drag
begin_drag(m, window, button, x, y) ==
    IF ~has_client(m.stack, window) THEN Panic(m)
    ELSE IF get(m.stack, window).state = None THEN Panic(m)
    ELSE
    LET st == get(m.stack, window).state[1]
        mid_x == I16(st.width \div 2)
        mid_y == I16(st.height \div 2)
        corner == IF button = 1 THEN "LeftTop"
                  ELSE IF x >= mid_x
                       THEN (IF y >= mid_y THEN "RightBottom" ELSE "RightTop")
                       ELSE (IF y >= mid_y THEN "LeftBottom" ELSE "LeftTop")
        type_ == IF button = 1 THEN Move ELSE Resize(corner)
        c == relative(corner, st)
    IN  IF button \notin {1, 3} THEN m
        ELSE [m EXCEPT !.drag = Some(Drag(type_, window, I16(x - c[1]), I16(y - c[2])))]

\* the resize arithmetic on the side whose edge follows the pointer from the
\* low end (left, top): the new position and size
drag_low(root, anchor, pos, size, min, max) ==
    LET x == I16(root - anchor)
        width == size - I16(x - pos)
    IN  IF width < min
        THEN [pos |-> I16(pos + (size - min)), size |-> min]
        ELSE IF width > max
        THEN [pos |-> I16(pos + (size - max)), size |-> max]
        ELSE [pos |-> x, size |-> width]

\* and from the high end (right, bottom): the new size
drag_high(event, anchor, min, max) ==
    Min(Max(Max(I16(event - anchor), 0), min), max)

snap_Up(size, base, inc, checked) ==
    IF inc = 0 THEN None
    ELSE Some(WrapSub(size, UMod(WrapSub(size, base), inc)) + inc)

\* base + ((size - base) / inc) * inc in u32 arithmetic, where (d / inc) * inc
\* is d - d mod inc; None when it panics: a division by zero, or size - base
\* below zero in a build with overflow checks (without them it wraps)
snap(size, base, inc, checked) ==
    IF inc = 0 THEN None
    ELSE IF checked /\ ULess(size, base) THEN None
    ELSE Some(WrapSub(size, UMod(WrapSub(size, base), inc)))

drag_config_Absolute(st, d, ev) ==
    Aux(Some(ev.root_x), Some(ev.root_y), None, None, None, None)

\* the configure request of a motion sample, before snapping
drag_config(st, d, ev) ==
    LET min == min_size(st)
        max == max_size(st)
        l == drag_low(ev.root_x, d.x, st.x, st.width, min[1], max[1])
        t == drag_low(ev.root_y, d.y, st.y, st.height, min[2], max[2])
    IN  CASE d.type_ = Move ->
                Aux(Some(I16(ev.root_x - d.x)), Some(I16(ev.root_y - d.y)),
                    None, None, None, None)
          [] d.type_ = Resize("LeftTop") ->
                Aux(Some(l.pos), Some(t.pos), Some(l.size), Some(t.size), None, None)
          [] d.type_ = Resize("LeftBottom") ->
                Aux(Some(l.pos), None, Some(l.size),
                    Some(drag_high(ev.event_y, d.y, min[2], max[2])), None, None)
          [] d.type_ = Resize("RightTop") ->
                Aux(None, Some(t.pos),
                    Some(drag_high(ev.event_x, d.x, min[1], max[1])),
                    Some(t.size), None, None)
          [] d.type_ = Resize("RightBottom") ->
                Aux(None, None,
                    Some(drag_high(ev.event_x, d.x, min[1], max[2])),
                    Some(drag_high(ev.event_y, d.y, min[2], max[2])), None, None)

\* the snapping of the request's sizes; [panic, config]
snap_config(st, cfg) ==
    LET h == st.wm_normal_hints
    IN  IF h.base_size = None \/ h.size_increment = None
        THEN [panic |-> FALSE, config |-> cfg]
        ELSE LET w == IF cfg.width = None THEN Some(None)
                      ELSE LET v == snap(cfg.width[1], h.base_size[1][1],
                                         h.size_increment[1][1], config.overflow_checks)
                           IN  IF v = None THEN None ELSE Some(v)
                 hh == IF cfg.height = None THEN Some(None)
                       ELSE LET v == snap(cfg.height[1], h.base_size[1][2],
                                          h.size_increment[1][2], config.overflow_checks)
                            IN  IF v = None THEN None ELSE Some(v)
             IN  IF w = None THEN [panic |-> TRUE, config |-> cfg]
                 ELSE IF hh = None
                 THEN [panic |-> TRUE, config |-> [cfg EXCEPT !.width = w[1]]]
                 ELSE [panic |-> FALSE,
                       config |-> [cfg EXCEPT !.width = w[1], !.height = hh[1]]]

(***************************************************************************)
(* The handlers of OxWM::run, one per event.                               *)
(***************************************************************************)
OnButtonPress(m, ev) ==
    LET c == click(m, ev.window)
    IN  IF ~c.ok THEN Try(c)
        ELSE IF ~ev.mod
        THEN Send(c.m, [req |-> "allow_events", window |-> NONE,
                        mode |-> "REPLAY_POINTER"],
                  XAllowEvents(c.m.srv)).m
        ELSE begin_drag(c.m, ev.window, ev.detail, ev.event_x, ev.event_y)

OnButtonRelease_KeepsDrag(m, ev) == m

OnButtonRelease(m, ev) == [m EXCEPT !.drag = None]

OnConfigureNotify(m, ev) ==
    LET r == IF ev.above_sibling = NONE
             THEN move_to_bottom(m.stack, m.focus, ev.window)
             ELSE move_to_above(m.stack, m.focus, ev.window, ev.above_sibling)
        i == get_with_index(r.stack, ev.window) + 1
    IN  IF r.panic THEN Panic([m EXCEPT !.stack = r.stack])
        ELSE IF r.stack[i].state = None THEN [m EXCEPT !.stack = r.stack]
        ELSE [m EXCEPT !.stack =
                 [r.stack EXCEPT ![i].state =
                     Some([@[1] EXCEPT !.x = ev.x, !.y = ev.y,
                                       !.width = ev.width, !.height = ev.height])]]

OnConfigureRequest_Caches(m, ev) ==
    IF ~has_client(m.stack, ev.window) THEN Panic(m)
    ELSE IF get(m.stack, ev.window).state = None THEN Panic(m)
    ELSE
    LET i == get_with_index(m.stack, ev.window) + 1
        value_list == clamp_size(ev.aux, m.stack[i].state[1])
        r == Send(m, ConfigureReq(ev.window, value_list),
                  XConfigureWindow(m.srv, ev.window, value_list))
    IN  [r.m EXCEPT !.stack[i].state =
            Some([@[1] EXCEPT !.x = OrElse(value_list.x, @),
                              !.width = OrElse(value_list.width, @),
                              !.height = OrElse(value_list.height, @)])]

OnConfigureRequest(m, ev) ==
    IF ~has_client(m.stack, ev.window) THEN Panic(m)
    ELSE IF get(m.stack, ev.window).state = None THEN Panic(m)
    ELSE
    LET client == get(m.stack, ev.window)
        value_list == IF ~override_redirect(client)
                      THEN clamp_size(ev.aux, client.state[1])
                      ELSE ev.aux
    IN  Send(m, ConfigureReq(ev.window, value_list),
             XConfigureWindow(m.srv, ev.window, value_list)).m

\* OxWM::create_notify; the result is [ok, m]
create_notify(m, ev) ==
    LET window == ev.window
        exists == Live(m.srv, window)
        p == Send(m, [req |-> "get_property", window |-> window,
                      property |-> wm_protocols],
                  Answer(exists, m.srv, <<>>))
        protocols == get_wm_protocols(exists, m.srv.win[window].protocols)
        h == Send(p.m, [req |-> "get_property", window |-> window,
                        property |-> "WM_NORMAL_HINTS"],
                  Answer(exists, m.srv, <<>>))
        hints == get_wm_normal_hints(exists, m.srv.win[window].hints)
        client ==
            IF ev.override_redirect THEN Client(window, None)
            ELSE Client(window,
                        Some(ClientState(ev.x, ev.y, ev.width, ev.height, FALSE,
                                         protocols.val,
                                         Some([state |-> "Withdrawn", icon |-> NONE]),
                                         hints.val)))
        before == IF ev.override_redirect THEN m ELSE h.m
        pushed == [before EXCEPT !.stack = push(@, before.focus, client).stack]
    IN  IF ~ev.override_redirect /\ ~protocols.ok THEN p
        ELSE IF ~ev.override_redirect /\ ~hints.ok THEN h
        ELSE IF ~push_assertion(before.stack, client)
        THEN [ok |-> FALSE, m |-> Panic(before)]
        ELSE IF ev.override_redirect THEN [ok |-> TRUE, m |-> pushed]
        ELSE manage(pushed, get(pushed.stack, window))

OnCreateNotify(m, ev) == create_notify(m, ev).m

\* the replacement focus: the first managed viewable client from the top,
\* one client skipped
refocus(stk) ==
    LET found == {i \in 1..(Len(stk) - 1) :
                     IF stk[i].state = None THEN FALSE
                     ELSE stk[i].state[1].is_viewable}
    IN  IF found = {} THEN None
        ELSE Some(stk[CHOOSE i \in found : \A j \in found : j <= i].window)

remove_Unchecked(stk, foc, window) == remove(stk, foc, window)

\* the removal of the DestroyNotify handler: only of a window that is there
remove_if_has_client(stk, foc, window) ==
    IF has_client(stk, window) THEN remove(stk, foc, window)
    ELSE Reg(FALSE, stk, foc)

clear_drag_Never(d, window) == d

\* the end of the DestroyNotify handler: a drag of the window stops
clear_drag(d, window) ==
    IF d = None THEN None
    ELSE IF d[1].window = window THEN None ELSE d

OnDestroyNotify_KeepsDrag(m, ev) ==
    LET window == ev.window
        target == IF m.focus = Some(window) THEN refocus(m.stack) ELSE None
        f == IF target = None THEN [ok |-> TRUE, m |-> m]
             ELSE OxWM_focus(m, target[1])
        r == remove_if_has_client(f.m.stack, f.m.focus, window)
    IN  IF m.focus # None /\ ~has_client(m.stack, OrElse(m.focus, NONE))
        THEN Panic(m)
        ELSE IF ~f.ok THEN Try(f)
        ELSE IF r.panic THEN Panic(f.m)
        ELSE [f.m EXCEPT !.stack = r.stack, !.focus = r.focus]

OnDestroyNotify(m, ev) ==
    LET window == ev.window
        target == IF m.focus = Some(window) THEN refocus(m.stack) ELSE None
        f == IF target = None THEN [ok |-> TRUE, m |-> m]
             ELSE OxWM_focus(m, target[1])
        r == remove_if_has_client(f.m.stack, f.m.focus, window)
        d == clear_drag(f.m.drag, window)
    IN  IF m.focus # None /\ ~has_client(m.stack, OrElse(m.focus, NONE))
        THEN Panic(m)
        ELSE IF ~f.ok THEN Try(f)
        ELSE IF r.panic THEN Panic(f.m)
        ELSE [f.m EXCEPT !.stack = r.stack, !.focus = r.focus, !.drag = d]

OnEnterNotify(m, ev) ==
    IF config.focus_model = "Autofocus" THEN OxWM_focus(m, ev.window).m ELSE m

OnFocusIn(m, ev) ==
    IF ~set_focus_assertion(m.stack, Some(ev.window)) THEN Panic(m)
    ELSE [m EXCEPT !.focus = set_focus(m.stack, m.focus, Some(ev.window)).focus]

OnFocusOut(m, ev) ==
    [m EXCEPT !.focus = set_focus(m.stack, m.focus, None).focus]

kill_Forcibly(m, window) ==
    IF ~has_client(m.stack, window) THEN [ok |-> FALSE, m |-> Panic(m)]
    ELSE IF get(m.stack, window).state = None THEN [ok |-> FALSE, m |-> Panic(m)]
    ELSE Send(m, Req("kill_client", window), XKillClient(m.srv, window))

\* OxWM::kill; the result is [ok, m]
kill(m, window) ==
    IF ~has_client(m.stack, window) THEN [ok |-> FALSE, m |-> Panic(m)]
    ELSE IF get(m.stack, window).state = None THEN [ok |-> FALSE, m |-> Panic(m)]
    ELSE IF get(m.stack, window).state[1].wm_protocols.delete_window
    THEN Send(m, [req |-> "send_event", window |-> window, type_ |-> wm_protocols,
                  format |-> 32, data |-> <<wm_delete_window, 0, 0, 0, 0>>],
              XSendEvent(m.srv, window))
    ELSE Send(m, Req("kill_client", window), XKillClient(m.srv, window))

\* OxWM::kill_focused_client
kill_focused_client(m, window) ==
    IF 0 # window THEN kill(m, window) ELSE [ok |-> TRUE, m |-> m]

poison_Ignored(m, window) == [ok |-> TRUE, m |-> m]

\* OxWM::poison
poison(m, window) == [ok |-> TRUE, m |-> [m EXCEPT !.keep_going = FALSE]]

\* Config::translate_keybinds: the keycodes bound to the two actions
KeyQuit == "q"
KeyKill == "w"
Keybinds == {KeyQuit, KeyKill}

OnKeyPress(m, ev) ==
    IF ev.detail \notin Keybinds THEN Panic(m)
    ELSE LET r == IF ev.detail = KeyQuit THEN poison(m, ev.child)
                  ELSE kill_focused_client(m, ev.child)
         IN  IF r.ok THEN r.m ELSE Try(r)

OnMapNotify_Unmarked(m, ev) ==
    IF ~has_client(m.stack, ev.window) THEN Panic(m)
    ELSE LET w == set_wm_state(m, ev.window, [state |-> "Normal", icon |-> NONE])
         IN  IF w.ok THEN w.m ELSE Try(w)

OnMapNotify(m, ev) ==
    IF ~has_client(m.stack, ev.window) THEN Panic(m)
    ELSE
    LET i == get_with_index(m.stack, ev.window) + 1
        seen == IF m.stack[i].state = None THEN m
                ELSE [m EXCEPT !.stack[i].state =
                         Some([@[1] EXCEPT !.is_viewable = TRUE])]
        w == set_wm_state(seen, ev.window, [state |-> "Normal", icon |-> NONE])
    IN  IF w.ok THEN w.m ELSE Try(w)

OnMapRequest(m, ev) ==
    LET r == Send(m, Req("map_window", ev.window), XMapWindow(m.srv, ev.window))
    IN  IF r.ok THEN r.m ELSE Try(r)

OnMotionNotify(m, ev) ==
    IF ~has_client(m.stack, ev.window) THEN Panic(m)
    ELSE IF get(m.stack, ev.window).state = None THEN Panic(m)
    ELSE IF m.drag = None THEN Panic(m)
    ELSE
    LET st == get(m.stack, ev.window).state[1]
        d == m.drag[1]
        cfg == snap_config(st, drag_config(st, d, ev))
        r == Send(m, ConfigureReq(d.window, cfg.config),
                  XConfigureWindow(m.srv, d.window, cfg.config))
    IN  IF cfg.panic THEN Panic(m)
        ELSE IF r.ok THEN r.m ELSE Try(r)

\* OxWM::property_notify; the result is [ok, m]
property_notify(m, ev) ==
    LET window == ev.window
        exists == Live(m.srv, window)
        read == Send(m, [req |-> "get_property", window |-> window,
                         property |-> ev.atom],
                     Answer(exists, m.srv, <<>>))
        value == CASE ev.atom = wm_protocols ->
                          get_wm_protocols(exists, m.srv.win[window].protocols)
                   [] ev.atom = wm_state ->
                          get_wm_state(exists, m.srv.win[window].wm_state)
                   [] OTHER ->
                          get_wm_normal_hints(exists, m.srv.win[window].hints)
        i == get_with_index(m.stack, window) + 1
    IN  IF ev.atom \notin {wm_protocols, wm_state, "WM_NORMAL_HINTS"}
        THEN [ok |-> TRUE, m |-> m]
        ELSE IF ~value.ok THEN read
        ELSE IF ~has_client(m.stack, window) THEN [ok |-> FALSE, m |-> Panic(read.m)]
        ELSE IF m.stack[i].state = None THEN [ok |-> FALSE, m |-> Panic(read.m)]
        ELSE [ok |-> TRUE,
              m |-> [read.m EXCEPT !.stack[i].state =
                        Some(CASE ev.atom = wm_protocols ->
                                      [@[1] EXCEPT !.wm_protocols = value.val]
                               [] ev.atom = wm_state ->
                                      [@[1] EXCEPT !.wm_state = value.val]
                               [] OTHER ->
                                      [@[1] EXCEPT !.wm_normal_hints = value.val])]]

OnPropertyNotify(m, ev) == property_notify(m, ev).m

OnUnmapNotify_Propagates(m, ev) ==
    LET unfocused == IF m.focus = Some(ev.window) THEN [m EXCEPT !.focus = None]
                     ELSE m
        w == set_wm_state(unfocused, ev.window,
                          [state |-> "Withdrawn", icon |-> NONE])
    IN  IF w.ok THEN w.m ELSE Try(w)

OnUnmapNotify(m, ev) ==
    IF m.focus # None /\ ~has_client(m.stack, OrElse(m.focus, NONE)) THEN Panic(m)
    ELSE LET unfocused ==
                 IF m.focus = Some(ev.window)
                 THEN [m EXCEPT !.focus = set_focus(m.stack, m.focus, None).focus]
                 ELSE m
         IN  set_wm_state(unfocused, ev.window,
                          [state |-> "Withdrawn", icon |-> NONE]).m

OnOther(m, ev) == m

(***************************************************************************)
(* Startup: Clients::new reads the server, init manages what it found.     *)
(***************************************************************************)
Clients_new_AnyFocus(s) ==
    [stack |-> [i \in 1..Len(s.stack) |-> Client(s.stack[i], None)],
     focus |-> Some(s.focus)]

Clients_new(s) ==
    LET stk == [i \in 1..Len(s.stack) |->
                   LET w == s.win[s.stack[i]]
                   IN  Client(s.stack[i],
                              IF w.or THEN None
                              ELSE Some(ClientState(
                                       w.geom.x, w.geom.y, w.geom.width,
                                       w.geom.height, w.mapped,
                                       get_wm_protocols(TRUE, w.protocols).val,
                                       get_wm_state(TRUE, w.wm_state).val,
                                       get_wm_normal_hints(TRUE, w.hints).val)))]
    IN  [stack |-> stk,
         focus |-> IF has_client(stk, s.focus) THEN Some(s.focus) ELSE None]

\* `then`, applied to the value of `r`
AndThen(r, then(_)) == CHOOSE m \in {then(v) : v \in {r}} : TRUE

RECURSIVE manage_from(_, _)
manage_from(m, i) ==
    IF i > Len(m.stack) THEN m
    ELSE AndThen(manage(m, m.stack[i]),
                 LAMBDA r : IF r.ok THEN manage_from(r.m, i + 1) ELSE Try(r))

\* OxWM::manage_extant_clients
manage_extant_clients(m) == manage_from(m, 1)

\* the events of the root's SUBSTRUCTURE_NOTIFY mask, selected by global_setup
SubstructureNotify ==
    {"ConfigureNotify", "CreateNotify", "DestroyNotify", "MapNotify", "UnmapNotify"}

\* a request the server grants and that changes nothing in this model
Granted(m, req) == Send(m, req, Answer(TRUE, m.srv, <<>>))

RootMask(mask) ==
    [req |-> "change_window_attributes", window |-> Root, event_mask |-> mask]

\* OxWM::become_wm; the result is [ok, m]
become_wm_Unchecked(m) ==
    [ok |-> TRUE,
     m |-> Send(m, RootMask({"SUBSTRUCTURE_REDIRECT"}), XSelectRedirect(m.srv)).m]

become_wm(m) ==
    Send(m, RootMask({"SUBSTRUCTURE_REDIRECT"}), XSelectRedirect(m.srv))

RECURSIVE grab_keys(_, _)
grab_keys(m, keys) ==
    IF keys = <<>> THEN m
    ELSE grab_keys(Granted(m, [req |-> "grab_key", window |-> Root,
                               key |-> Head(keys)]).m,
                   Tail(keys))

\* OxWM::global_setup; `keys` is the order in which the map yields its keys
global_setup(m, keys) ==
    LET r == Send(m, RootMask({"SUBSTRUCTURE_NOTIFY", "SUBSTRUCTURE_REDIRECT"}),
                  XSelectRedirect(m.srv))
    IN  IF ~r.ok THEN Try(r) ELSE grab_keys(r.m, keys)

\* Config::new_core: the programs of the default configuration
StartupPrograms == <<"xterm">>

\* OxWM::run_startup_programs: a program that cannot be spawned is only logged
run_startup_programs(m) ==
    [m EXCEPT !.reqs = @ \o [i \in 1..Len(StartupPrograms) |->
                                [req |-> "spawn", window |-> NONE,
                                 program |-> StartupPrograms[i]]]]

\* OxWM::init
OxWM_init_SetupFirst(m, keys) ==
    AndThen(global_setup(m, keys), LAMBDA g :
        AndThen(become_wm(g), LAMBDA b :
            IF ~b.ok THEN Try(b)
            ELSE AndThen(manage_extant_clients(b.m), LAMBDA c :
                     IF c.outcome # "running" THEN c
                     ELSE run_startup_programs(c))))

OxWM_init(m, keys) ==
    AndThen(become_wm(m), LAMBDA b :
        IF ~b.ok THEN Try(b)
        ELSE AndThen(manage_extant_clients(b.m), LAMBDA c :
                 IF c.outcome # "running" THEN c
                 ELSE AndThen(global_setup(c, keys), LAMBDA g :
                          IF g.outcome # "running" THEN g
                          ELSE run_startup_programs(g))))

\* OxWM::new on a server in state s: the server grab, the atoms, the
\* registry, init, and the release of the grab
startup(s, keys) ==
    LET c == Clients_new(s)
        m0 == [stack |-> <<>>, focus |-> None, drag |-> None,
               keep_going |-> TRUE, outcome |-> "running", srv |-> s,
               events |-> <<>>, reqs |-> <<>>]
        m1 == Granted(m0, Req("grab_server", NONE)).m
        m2 == Granted(m1, Req("intern_atom", NONE)).m
        m3 == Granted(m2, Req("query_tree", Root)).m
        m4 == Granted(m3, Req("get_input_focus", NONE)).m
    IN  AndThen(OxWM_init([m4 EXCEPT !.stack = c.stack, !.focus = c.focus], keys),
                LAMBDA i :
                    IF i.outcome # "running" THEN i
                    ELSE Granted(i, Req("ungrab_server", NONE)).m)

(***************************************************************************)
(* Spec: the manager running against the server and its other clients.     *)
(***************************************************************************)
MaxInitial == 2
MaxQueue == 2
MaxInputs == 3

Idle == [op |-> "init"]
NoHist == [initial |-> 0, pushes |-> 0, removes |-> 0, inputs |-> 0]

\* what the other clients choose from
SmallSide == 100
LargeSide == 300
CreateGeoms == {Geom(0, 0, SmallSide, LargeSide)}
ProtocolChoices == {None, Some(<<wm_delete_window>>)}
PointerAt == 150
PointerStep == 10
Pointer == {<<PointerAt, PointerAt>>}
PointerMoved == {<<PointerAt + PointerStep, PointerAt + PointerStep>>}
ClientAuxes ==
    {Aux(Some(PointerAt), None, Some(LargeSide), Some(SmallSide), None, None),
     Aux(None, None, None, None, None, Some("Above")),
     Aux(None, None, None, None, None, Some("Below"))}

\* the orders in which the keybinding map can yield its keys
KeyOrders == {keys \in [1..Cardinality(Keybinds) -> Keybinds] :
                 \A i, j \in DOMAIN keys : keys[i] = keys[j] => i = j}

InitialServers ==
    {[stack |-> [i \in 1..k |-> i],
      win |-> [w \in Windows |->
                  IF w <= k
                  THEN [DeadWin EXCEPT !.or = w \in ors, !.mapped = w \in mapped,
                                       !.geom = Geom(0, 0, SmallSide, LargeSide)]
                  ELSE DeadWin],
      focus |-> f, grab |-> NoGrab, redirect |-> r] :
        k \in 0..MaxInitial, ors \in SUBSET (1..MaxInitial),
        mapped \in SUBSET (1..MaxInitial), f \in {NONE} \cup (1..MaxInitial),
        r \in {"none", "other"}}

Init ==
    \E s \in InitialServers :
        /\ s.focus \in Windows => Viewable(s, s.focus)
        /\ \A w \in Windows : ~Live(s, w) => s.win[w] = DeadWin
        /\ \E keys \in KeyOrders : \E m \in {startup(s, keys)} :
               /\ stack = m.stack
               /\ focus = m.focus
               /\ drag = m.drag
               /\ keep_going = m.keep_going
               /\ outcome = m.outcome
               /\ srv = m.srv
               /\ queue = SelectSeq(m.events, LAMBDA e : e.type \notin SubstructureNotify
                                                       /\ e.type # "PropertyNotify")
               /\ last = [op |-> "init", reqs |-> m.reqs]
    /\ hist = NoHist
    /\ config \in {[focus_model |-> f, overflow_checks |-> FALSE] :
                       f \in {"Click", "Autofocus"}}

Machine ==
    [stack |-> stack, focus |-> focus, drag |-> drag, keep_going |-> keep_going,
     outcome |-> outcome, srv |-> srv, events |-> <<>>, reqs |-> <<>>]

\* the loop takes the next event and runs its handler
Takes(type) ==
    /\ outcome = "running"
    /\ keep_going
    /\ queue # <<>>
    /\ Head(queue).type = type

Handled(m) ==
    /\ stack' = m.stack
    /\ focus' = m.focus
    /\ drag' = m.drag
    /\ keep_going' = m.keep_going
    /\ outcome' = m.outcome
    /\ srv' = m.srv
    /\ queue' = Tail(queue) \o m.events
    /\ last' = [op |-> Head(queue).type, ev |-> Head(queue), reqs |-> m.reqs,
                drag |-> drag]
    /\ UNCHANGED <<hist, config>>

ButtonPress ==
    /\ Takes("ButtonPress")
    /\ \E m \in {OnButtonPress(Machine, Head(queue))} : Handled(m)

ButtonRelease ==
    /\ Takes("ButtonRelease")
    /\ \E m \in {OnButtonRelease(Machine, Head(queue))} : Handled(m)

ConfigureNotify ==
    /\ Takes("ConfigureNotify")
    /\ \E m \in {OnConfigureNotify(Machine, Head(queue))} : Handled(m)

ConfigureRequest ==
    /\ Takes("ConfigureRequest")
    /\ \E m \in {OnConfigureRequest(Machine, Head(queue))} : Handled(m)

CreateNotify ==
    /\ Takes("CreateNotify")
    /\ \E m \in {OnCreateNotify(Machine, Head(queue))} : Handled(m)

DestroyNotify ==
    /\ Takes("DestroyNotify")
    /\ \E m \in {OnDestroyNotify(Machine, Head(queue))} : Handled(m)

EnterNotify ==
    /\ Takes("EnterNotify")
    /\ \E m \in {OnEnterNotify(Machine, Head(queue))} : Handled(m)

FocusIn ==
    /\ Takes("FocusIn")
    /\ \E m \in {OnFocusIn(Machine, Head(queue))} : Handled(m)

FocusOut ==
    /\ Takes("FocusOut")
    /\ \E m \in {OnFocusOut(Machine, Head(queue))} : Handled(m)

KeyPress ==
    /\ Takes("KeyPress")
    /\ \E m \in {OnKeyPress(Machine, Head(queue))} : Handled(m)

MapNotify ==
    /\ Takes("MapNotify")
    /\ \E m \in {OnMapNotify(Machine, Head(queue))} : Handled(m)

MapRequest ==
    /\ Takes("MapRequest")
    /\ \E m \in {OnMapRequest(Machine, Head(queue))} : Handled(m)

MotionNotify ==
    /\ Takes("MotionNotify")
    /\ \E m \in {OnMotionNotify(Machine, Head(queue))} : Handled(m)

PropertyNotify ==
    /\ Takes("PropertyNotify")
    /\ \E m \in {OnPropertyNotify(Machine, Head(queue))} : Handled(m)

UnmapNotify ==
    /\ Takes("UnmapNotify")
    /\ \E m \in {OnUnmapNotify(Machine, Head(queue))} : Handled(m)

OtherEvent ==
    /\ Takes("MappingNotify")
    /\ \E m \in {OnOther(Machine, Head(queue))} : Handled(m)

\* `while self.keep_going` ends the loop
Exit ==
    /\ outcome = "running"
    /\ ~keep_going
    /\ outcome' = "ok"
    /\ UNCHANGED <<stack, focus, drag, keep_going, last, hist, config, srv, queue>>

(***************************************************************************)
(* The other clients and the user.  What they do reaches the manager as    *)
(* events at the tail of its queue.                                        *)
(***************************************************************************)
Acts ==
    /\ outcome = "running"
    /\ keep_going
    /\ Len(queue) < MaxQueue
    /\ hist.inputs < MaxInputs

Happens(s, events) ==
    /\ srv' = s
    /\ queue' = queue \o events
    /\ hist' = [hist EXCEPT !.inputs = @ + 1]
    /\ UNCHANGED <<stack, focus, drag, keep_going, outcome, last, config>>

\* a client creates a window; it gets the lowest id that is free
EnvCreate(w, or, geom, protocols) ==
    /\ Acts
    /\ ~Live(srv, w)
    /\ \A v \in 1..(w - 1) : Live(srv, v)
    /\ Happens([srv EXCEPT !.stack = Append(@, w),
                           !.win[w] = [DeadWin EXCEPT !.or = or, !.geom = geom,
                                                      !.protocols = protocols]],
               <<[type |-> "CreateNotify", window |-> w, x |-> geom.x, y |-> geom.y,
                  width |-> geom.width, height |-> geom.height,
                  override_redirect |-> or]>>)

EnvDestroy(w) ==
    /\ Acts
    /\ Live(srv, w)
    /\ LET a == XDestroyWindow(srv, w) IN Happens(a.srv, a.events)

\* a map request of a window without override-redirect is redirected
EnvMap(w) ==
    /\ Acts
    /\ Live(srv, w)
    /\ ~srv.win[w].mapped
    /\ IF srv.win[w].or
       THEN LET a == XMapWindow(srv, w) IN Happens(a.srv, a.events)
       ELSE Happens(srv, <<Ev("MapRequest", w)>>)

EnvUnmap(w) ==
    /\ Acts
    /\ Viewable(srv, w)
    /\ LET a == XUnmapWindow(srv, w) IN Happens(a.srv, a.events)

\* and so is its configure request
EnvConfigure(w, aux) ==
    /\ Acts
    /\ Live(srv, w)
    /\ IF srv.win[w].or
       THEN LET a == XConfigureWindow(srv, w, aux) IN Happens(a.srv, a.events)
       ELSE Happens(srv, <<[type |-> "ConfigureRequest", window |-> w, aux |-> aux]>>)

EnvSetProtocols(w, protocols) ==
    /\ Acts
    /\ Live(srv, w)
    /\ srv.win[w].protocols # protocols
    /\ Happens([srv EXCEPT !.win[w].protocols = protocols],
               IF srv.win[w].selected THEN <<PropertyNotifyEv(w, wm_protocols)>>
               ELSE <<>>)

EnvFocus(w) ==
    /\ Acts
    /\ w # NONE => Viewable(srv, w)
    /\ srv.focus # w
    /\ LET a == FocusMoves(srv, w) IN Happens(a.srv, a.events)

\* a button goes down over a window with the manager's grabs, or during the
\* pointer grab that such a press began
EnvButtonPress(w, detail, mod, at) ==
    /\ Acts
    /\ Viewable(srv, w)
    /\ srv.win[w].selected
    /\ IF srv.grab.window = NONE
       THEN (detail = 1 \/ (detail = 3 /\ mod)) /\ srv.grab.buttons = 0
       ELSE srv.grab.window = w /\ srv.grab.buttons < 2
    /\ Happens([srv EXCEPT !.grab = IF srv.grab.window = NONE /\ ~mod THEN NoGrab
                                    ELSE [window |-> w, buttons |-> @.buttons + 1]],
               <<[type |-> "ButtonPress", window |-> w, detail |-> detail,
                  mod |-> mod, event_x |-> I16(at[1] - srv.win[w].geom.x),
                  event_y |-> I16(at[2] - srv.win[w].geom.y)]>>)

EnvButtonRelease ==
    /\ Acts
    /\ srv.grab.window # NONE
    /\ Happens([srv EXCEPT !.grab = IF @.buttons = 1 THEN NoGrab
                                    ELSE [@ EXCEPT !.buttons = @ - 1]],
               <<Ev("ButtonRelease", srv.grab.window)>>)

EnvMotion(at) ==
    /\ Acts
    /\ srv.grab.window # NONE
    /\ LET w == srv.grab.window
       IN  Happens(srv, <<[type |-> "MotionNotify", window |-> w,
                           root_x |-> at[1], root_y |-> at[2],
                           event_x |-> I16(at[1] - srv.win[w].geom.x),
                           event_y |-> I16(at[2] - srv.win[w].geom.y)]>>)

EnvEnter(w) ==
    /\ Acts
    /\ Viewable(srv, w)
    /\ srv.win[w].selected
    /\ srv.grab.window = NONE
    /\ Happens(srv, <<Ev("EnterNotify", w)>>)

\* a bound key; child is the top-level window under the pointer, if any
EnvKeyPress(detail, child) ==
    /\ Acts
    /\ child # NONE => Viewable(srv, child)
    /\ Happens(srv, <<[type |-> "KeyPress", detail |-> detail, child |-> child]>>)

EnvMappingNotify ==
    /\ Acts
    /\ Happens(srv, <<Ev("MappingNotify", NONE)>>)

Next ==
    \/ ButtonPress
    \/ ButtonRelease
    \/ ConfigureNotify
    \/ ConfigureRequest
    \/ CreateNotify
    \/ DestroyNotify
    \/ EnterNotify
    \/ FocusIn
    \/ FocusOut
    \/ KeyPress
    \/ MapNotify
    \/ MapRequest
    \/ MotionNotify
    \/ PropertyNotify
    \/ UnmapNotify
    \/ OtherEvent
    \/ Exit
    \/ \E w \in Windows, or \in BOOLEAN, geom \in CreateGeoms,
          protocols \in ProtocolChoices : EnvCreate(w, or, geom, protocols)
    \/ \E w \in Windows : EnvDestroy(w)
    \/ \E w \in Windows : EnvMap(w)
    \/ \E w \in Windows : EnvUnmap(w)
    \/ \E w \in Windows, aux \in ClientAuxes : EnvConfigure(w, aux)
    \/ \E w \in Windows, protocols \in ProtocolChoices : EnvSetProtocols(w, protocols)
    \/ \E w \in Windows \cup {NONE} : EnvFocus(w)
    \/ \E w \in Windows, detail \in 1..3, mod \in BOOLEAN, at \in Pointer :
          EnvButtonPress(w, detail, mod, at)
    \/ EnvButtonRelease
    \/ \E at \in PointerMoved : EnvMotion(at)
    \/ \E w \in Windows : EnvEnter(w)
    \/ \E detail \in Keybinds, child \in Windows \cup {NONE} : EnvKeyPress(detail, child)
    \/ EnvMappingNotify

Spec == Init /\ [][Next]_vars

(***************************************************************************)
(* SpecGeom: the manager with one client whose size and WM_NORMAL_HINTS    *)
(* vary, a second client that may be created, and a user who drags the     *)
(* first client by its corners.  The handlers and the event sources are    *)
(* those of Spec.                                                          *)
(***************************************************************************)
SizeHints(min, max, base, inc) ==
    [min_size |-> min, max_size |-> max, base_size |-> base,
     size_increment |-> inc]

\* the geometry of a window before the manager has seen it
GeomWindows == {Geom(100, 100, 50, 50), Geom(100, 100, 300, 300)}

\* its WM_NORMAL_HINTS: none, a minimum, both bounds (wider, then taller),
\* and size increments
GeomHints ==
    {None,
     Some(SizeHints(Some(<<256, 256>>), None, None, None)),
     Some(SizeHints(Some(<<60, 40>>), Some(<<400, 250>>), None, None)),
     Some(SizeHints(Some(<<60, 40>>), Some(<<250, 400>>), None, None)),
     Some(SizeHints(None, None, Some(<<10, 10>>), Some(<<7, 7>>))),
     Some(SizeHints(None, None, Some(<<200, 200>>), Some(<<7, 7>>))),
     Some(SizeHints(None, None, Some(<<10, 10>>), Some(<<0, 0>>)))}

\* where the button goes down: near each corner of the window and on its
\* midlines
PressPoints(g) ==
    {<<g.x + dx, g.y + dy>> : dx \in {5, g.width \div 2, g.width - 5},
                              dy \in {5, g.height \div 2, g.height - 5}}

\* where the pointer is sampled
MotionPoints == {<<60, 70>>, <<240, 230>>, <<700, 650>>}

InitGeom ==
    /\ \E g \in GeomWindows, h \in GeomHints, keys \in KeyOrders :
          \E m \in {startup([NoServer EXCEPT
                                !.stack = <<1>>,
                                !.win[1] = [DeadWin EXCEPT !.mapped = TRUE,
                                                           !.geom = g,
                                                           !.hints = h]],
                            keys)} :
              /\ stack = m.stack
              /\ focus = m.focus
              /\ drag = m.drag
              /\ keep_going = m.keep_going
              /\ outcome = m.outcome
              /\ srv = m.srv
              /\ queue = <<>>
              /\ last = [op |-> "init", reqs |-> m.reqs]
    /\ hist = NoHist
    /\ config \in {[focus_model |-> "Click", overflow_checks |-> b] : b \in BOOLEAN}

NextGeom ==
    \/ ButtonPress
    \/ ConfigureNotify
    \/ CreateNotify
    \/ FocusIn
    \/ MotionNotify
    \/ \E geom \in GeomWindows : EnvCreate(2, FALSE, geom, None)
    \/ \E detail \in {1, 3}, at \in PressPoints(srv.win[1].geom) :
          EnvButtonPress(1, detail, TRUE, at)
    \/ \E at \in MotionPoints : EnvMotion(at)

SpecGeom == InitGeom /\ [][NextGeom]_vars

(***************************************************************************)
(* SpecResize: the clamping and snapping of the MotionNotify arm applied   *)
(* to its own result.  One client is in a resize drag by one of its        *)
(* corners with the anchor at the corner; each sample puts the pointer     *)
(* where the raw size is the client's current size, and the client then    *)
(* takes the size that was requested.                                      *)
(***************************************************************************)
Corners == {"LeftTop", "LeftBottom", "RightTop", "RightBottom"}

ResizeHints ==
    {WmSizeHints_new,
     SizeHints(Some(<<60, 40>>), Some(<<400, 250>>), None, None),
     SizeHints(Some(<<60, 40>>), Some(<<250, 400>>), None, None),
     SizeHints(None, None, Some(<<10, 10>>), Some(<<7, 7>>)),
     SizeHints(None, None, Some(<<200, 200>>), Some(<<7, 7>>)),
     SizeHints(None, None, Some(<<10, 10>>), Some(<<0, 0>>)),
     SizeHints(Some(<<100, 100>>), Some(<<300, 300>>), Some(<<10, 10>>), Some(<<7, 7>>)),
     SizeHints(Some(<<100, 90>>), Some(<<300, 200>>), Some(<<30, 20>>), Some(<<16, 9>>))}

ResizeSizes == {40, 60, 90, 100, 128, 130, 200, 250, 300, 400, 16384}

\* the sample of a drag by `corner`, anchored at the corner, whose raw size
\* is width x height
SampleFor(st, corner, width, height) ==
    [type |-> "MotionNotify", window |-> 1,
     root_x |-> (st.x + st.width) - width,
     root_y |-> (st.y + st.height) - height,
     event_x |-> width,
     event_y |-> height]

\* the MotionNotify arm's request for that sample; [panic, config]
resize_to(st, corner, width, height) ==
    snap_config(st, drag_config(st, Drag(Resize(corner), 1, 0, 0),
                                SampleFor(st, corner, width, height)))

InitResize ==
    /\ \E h \in ResizeHints, corner \in Corners, width, height \in ResizeSizes :
          LET st == [TestClientState EXCEPT !.x = 500, !.y = 500,
                                            !.width = width, !.height = height,
                                            !.wm_normal_hints = h]
          IN  /\ min_size(st)[1] <= width /\ width <= max_size(st)[1]
              /\ min_size(st)[2] <= height /\ height <= max_size(st)[2]
              /\ stack = <<Client(1, Some(st))>>
              /\ drag = Some(Drag(Resize(corner), 1, 0, 0))
              /\ last = [op |-> "init", count |-> 0,
                         size |-> <<width, height>>, sizes |-> <<>>]
    /\ focus = None
    /\ keep_going = TRUE
    /\ outcome = "running"
    /\ hist = NoHist
    /\ config \in {[focus_model |-> "Click", overflow_checks |-> b] : b \in BOOLEAN}
    /\ srv = [NoServer EXCEPT !.stack = <<1>>,
                              !.win[1] = [DeadWin EXCEPT !.mapped = TRUE]]
    /\ queue = <<>>

\* one more application to the client's current size
Resample ==
    /\ outcome = "running"
    /\ last.count < MaxSamples
    /\ LET st == stack[1].state[1]
       IN  \E r \in {resize_to(st, drag[1].type_[2], st.width, st.height)} :
              IF r.panic
              THEN /\ outcome' = "panic"
                   /\ last' = [last EXCEPT !.op = "MotionNotify", !.count = @ + 1]
                   /\ UNCHANGED stack
              ELSE LET c == r.config
                       x == OrElse(c.x, st.x)
                       y == OrElse(c.y, st.y)
                   IN  /\ outcome' = "running"
                       /\ stack' = <<Client(1, Some([st EXCEPT
                                                        !.x = x, !.y = y,
                                                        !.width = c.width[1],
                                                        !.height = c.height[1]]))>>
                       /\ last' = [last EXCEPT
                                      !.op = "MotionNotify", !.count = @ + 1,
                                      !.sizes = Append(@, <<c.width[1], c.height[1]>>)]
    /\ UNCHANGED <<focus, drag, keep_going, hist, config, srv, queue>>

NextResize == Resample

SpecResize == InitResize /\ [][NextResize]_vars

(***************************************************************************)
(* SpecBurst: the manager, started with one mapped managed window, and     *)
(* clients that act several times before the manager reads the events: a   *)
(* second window is created, configured and destroyed, and buttons go down *)
(* and up on the first.  The queue is bounded only by the number of        *)
(* inputs.                                                                 *)
(***************************************************************************)
BurstActs ==
    /\ outcome = "running"
    /\ keep_going
    /\ hist.inputs < MaxBurst

InitBurst ==
    /\ \E keys \in KeyOrders :
          \E m \in {startup([NoServer EXCEPT
                                !.stack = <<1>>,
                                !.win[1] = [DeadWin EXCEPT
                                               !.mapped = TRUE,
                                               !.geom = Geom(100, 100, LargeSide, LargeSide)]],
                            keys)} :
              /\ stack = m.stack
              /\ focus = m.focus
              /\ drag = m.drag
              /\ keep_going = m.keep_going
              /\ outcome = m.outcome
              /\ srv = m.srv
              /\ queue = <<>>
              /\ last = [op |-> "init", reqs |-> m.reqs]
    /\ hist = NoHist
    /\ config = [focus_model |-> "Click", overflow_checks |-> FALSE]

\* a client creates window 2
BurstCreate(or) ==
    /\ BurstActs
    /\ ~Live(srv, 2)
    /\ \E geom \in CreateGeoms :
          Happens([srv EXCEPT !.stack = Append(@, 2),
                              !.win[2] = [DeadWin EXCEPT !.or = or, !.geom = geom]],
                  <<[type |-> "CreateNotify", window |-> 2, x |-> geom.x, y |-> geom.y,
                     width |-> geom.width, height |-> geom.height,
                     override_redirect |-> or]>>)

\* a client configures its window: redirected to the window manager, if one
\* is running, unless the window is override-redirect
BurstConfigure(w, aux) ==
    /\ BurstActs
    /\ Live(srv, w)
    /\ IF srv.win[w].or \/ srv.redirect = "none"
       THEN LET a == XConfigureWindow(srv, w, aux) IN Happens(a.srv, a.events)
       ELSE Happens(srv, <<[type |-> "ConfigureRequest", window |-> w, aux |-> aux]>>)

\* a client destroys its window
BurstDestroy(w) ==
    /\ BurstActs
    /\ Live(srv, w)
    /\ LET a == XDestroyWindow(srv, w) IN Happens(a.srv, a.events)

\* a button goes down on window 1 with the modifier held
BurstPress(detail) ==
    /\ BurstActs
    /\ Viewable(srv, 1)
    /\ srv.win[1].selected
    /\ srv.grab.buttons < 2
    /\ \E at \in Pointer :
          Happens([srv EXCEPT !.grab = [window |-> 1, buttons |-> @.buttons + 1]],
                  <<[type |-> "ButtonPress", window |-> 1, detail |-> detail,
                     mod |-> TRUE, event_x |-> I16(at[1] - srv.win[1].geom.x),
                     event_y |-> I16(at[2] - srv.win[1].geom.y)]>>)

\* a button goes up; the grab lasts while another button is down
BurstRelease ==
    /\ BurstActs
    /\ srv.grab.window # NONE
    /\ Happens([srv EXCEPT !.grab = IF @.buttons = 1 THEN NoGrab
                                    ELSE [@ EXCEPT !.buttons = @ - 1]],
               <<Ev("ButtonRelease", srv.grab.window)>>)

\* the pointer moves during the grab
BurstMotion ==
    /\ BurstActs
    /\ srv.grab.window # NONE
    /\ \E at \in PointerMoved :
          LET w == srv.grab.window
          IN  Happens(srv, <<[type |-> "MotionNotify", window |-> w,
                              root_x |-> at[1], root_y |-> at[2],
                              event_x |-> I16(at[1] - srv.win[w].geom.x),
                              event_y |-> I16(at[2] - srv.win[w].geom.y)]>>)

NextBurst ==
    \/ ButtonPress
    \/ ButtonRelease
    \/ ConfigureNotify
    \/ ConfigureRequest
    \/ CreateNotify
    \/ DestroyNotify
    \/ FocusIn
    \/ MotionNotify
    \/ \E or \in BOOLEAN : BurstCreate(or)
    \/ \E w \in {1, 2}, aux \in ClientAuxes : BurstConfigure(w, aux)
    \/ BurstDestroy(2)
    \/ \E detail \in {1, 3} : BurstPress(detail)
    \/ BurstRelease
    \/ BurstMotion

SpecBurst == InitBurst /\ [][NextBurst]_vars

(***************************************************************************)
(* SpecCtl: bin/oxwm/main.rs, the manager that oxctl talks to.  It has two *)
(* threads that share OxWM.state, a Mutex<OxWMState>: the main thread      *)
(* loops over the X events and the RPC thread serves one ls call after the *)
(* other.  Here the variables hold                                         *)
(*   stack   OxWMState.clients, a map from windows to lib.rs's Client;     *)
(*   last    the mutex and the two threads: [mutex, loop, rpc], where      *)
(*           loop = [pc, ev] and rpc = [pc, snapshot];                     *)
(*   hist    besides the inputs, the ls calls accepted and `committed`,    *)
(*           the clients as they were when the mutex was last released by  *)
(*           the main thread;                                              *)
(*   srv, queue, outcome as before.                                        *)
(* An assignment to one field of a client is one step, so that a reader    *)
(* that did not take the mutex could see half of a handler's writes.       *)
(***************************************************************************)
\* lib.rs's Client, as main() and the handlers fill it
OxClient(geom) ==
    [x |-> geom.x, y |-> geom.y, width |-> geom.width, height |-> geom.height,
     name |-> <<>>]

Fields == <<"x", "y", "width", "height">>

MutexFree_Always(mutex) == TRUE

\* Mutex::lock returns when no thread holds the guard
MutexFree(mutex) == mutex = "free"

\* main(): the children of the root with their geometry, read under the server
\* grab; SUBSTRUCTURE_NOTIFY is selected on the root
InitCtl ==
    /\ \E present \in {{1}, {1, 3}}, mapped \in SUBSET {1} :
          /\ srv = [NoServer EXCEPT
                       !.stack = IF 3 \in present THEN <<1, 3>> ELSE <<1>>,
                       !.win = [w \in Windows |->
                                   IF w \in present
                                   THEN [DeadWin EXCEPT
                                            !.mapped = w \in mapped,
                                            !.geom = Geom(0, 0, SmallSide, LargeSide)]
                                   ELSE DeadWin]]
          /\ stack = [w \in present |-> OxClient(Geom(0, 0, SmallSide, LargeSide))]
    /\ focus = None
    /\ drag = None
    /\ keep_going = TRUE
    /\ outcome = "running"
    /\ last = [mutex |-> "free",
               loop |-> [pc |-> "wait", ev |-> Ev("none", NONE)],
               rpc |-> [pc |-> "accept", snapshot |-> None]]
    /\ hist = [initial |-> Cardinality(DOMAIN stack), pushes |-> 0, removes |-> 0,
               inputs |-> 0, calls |-> 0, committed |-> stack]
    /\ config = [focus_model |-> "Click", overflow_checks |-> FALSE]
    /\ queue = <<>>

CtlRuns == outcome = "running"

\* oxwm.conn.wait_for_event()?: the arms of the match; `_ => ()` goes round
WaitForEvent ==
    /\ CtlRuns
    /\ last.loop.pc = "wait"
    /\ queue # <<>>
    /\ queue' = Tail(queue)
    /\ last' = [last EXCEPT
                   !.loop = [pc |-> IF Head(queue).type \in
                                        {"CreateNotify", "ConfigureNotify", "DestroyNotify"}
                                    THEN "lock" ELSE "wait",
                             ev |-> Head(queue)]]
    /\ UNCHANGED <<stack, focus, drag, keep_going, outcome, hist, config, srv>>

\* let mut st = oxwm.state.lock().unwrap()
LockState ==
    /\ CtlRuns
    /\ last.loop.pc = "lock"
    /\ MutexFree(last.mutex)
    /\ last' = [last EXCEPT
                   !.mutex = "loop",
                   !.loop.pc = IF last.loop.ev.type = "DestroyNotify"
                               THEN "remove" ELSE "get_mut"]
    /\ UNCHANGED <<stack, focus, drag, keep_going, outcome, hist, config, srv, queue>>

\* st.clients.get_mut(&ev.window).unwrap(), in the CreateNotify arm and in the
\* ConfigureNotify arm alike
GetMut ==
    /\ CtlRuns
    /\ last.loop.pc = "get_mut"
    /\ IF last.loop.ev.window \in DOMAIN stack
       THEN /\ last' = [last EXCEPT !.loop.pc = Fields[1]]
            /\ UNCHANGED outcome
       ELSE /\ outcome' = "panic"
            /\ UNCHANGED last
    /\ UNCHANGED <<stack, focus, drag, keep_going, hist, config, srv, queue>>

\* client.x = ev.x; client.y = ev.y; client.width = ev.width;
\* client.height = ev.height: one assignment
Assign ==
    /\ CtlRuns
    /\ \E i \in 1..Len(Fields) :
          /\ last.loop.pc = Fields[i]
          /\ stack' = [stack EXCEPT
                          ![last.loop.ev.window][Fields[i]] = last.loop.ev[Fields[i]]]
          /\ last' = [last EXCEPT
                         !.loop.pc = IF i < Len(Fields) THEN Fields[i + 1] ELSE "unlock"]
    /\ UNCHANGED <<focus, drag, keep_going, outcome, hist, config, srv, queue>>

\* st.clients.remove(&ev.event): the event field of a DestroyNotify selected
\* with SUBSTRUCTURE_NOTIFY on the root is the root
Remove ==
    /\ CtlRuns
    /\ last.loop.pc = "remove"
    /\ stack' = [w \in DOMAIN stack \ {Root} |-> stack[w]]
    /\ last' = [last EXCEPT !.loop.pc = "unlock"]
    /\ UNCHANGED <<focus, drag, keep_going, outcome, hist, config, srv, queue>>

\* the guard st is dropped at the end of the arm
Unlock ==
    /\ CtlRuns
    /\ last.loop.pc = "unlock"
    /\ last' = [last EXCEPT !.mutex = "free", !.loop.pc = "wait"]
    /\ hist' = [hist EXCEPT !.committed = stack]
    /\ UNCHANGED <<stack, focus, drag, keep_going, outcome, config, srv, queue>>

\* server.accept() and serve_single_call: oxctl calls ls
Accept ==
    /\ CtlRuns
    /\ last.rpc.pc = "accept"
    /\ hist.calls < MaxCalls
    /\ last' = [last EXCEPT !.rpc.pc = "lock"]
    /\ hist' = [hist EXCEPT !.calls = @ + 1]
    /\ UNCHANGED <<stack, focus, drag, keep_going, outcome, config, srv, queue>>

\* Ox::ls: self.state.lock()
LsLock ==
    /\ CtlRuns
    /\ last.rpc.pc = "lock"
    /\ MutexFree(last.mutex)
    /\ last' = [last EXCEPT !.mutex = "rpc", !.rpc.pc = "clone"]
    /\ UNCHANGED <<stack, focus, drag, keep_going, outcome, hist, config, srv, queue>>

\* Ox::ls: .clone(); the guard is a temporary of the statement
LsClone ==
    /\ CtlRuns
    /\ last.rpc.pc = "clone"
    /\ last' = [last EXCEPT !.mutex = "free",
                            !.rpc = [pc |-> "accept", snapshot |-> Some(stack)]]
    /\ UNCHANGED <<stack, focus, drag, keep_going, outcome, hist, config, srv, queue>>

NextCtl ==
    \/ WaitForEvent
    \/ LockState
    \/ GetMut
    \/ Assign
    \/ Remove
    \/ Unlock
    \/ Accept
    \/ LsLock
    \/ LsClone
    \/ \E or \in BOOLEAN : BurstCreate(or)
    \/ \E w \in Windows, aux \in ClientAuxes : BurstConfigure(w, aux)
    \/ \E w \in Windows : BurstDestroy(w)

SpecCtl == InitCtl /\ [][NextCtl]_vars

(***************************************************************************)
(* SpecAtom: the property codecs applied to every bounded input.           *)
(***************************************************************************)

Properties(S) == {None} \cup {Some(p) : p \in SeqsUpTo(S, MaxProp)}

\* a call about to be made, and the call once it has returned
Pending(op, arg) == [op |-> op, pending |-> TRUE, arg |-> arg]
Done(op, arg, ret) == [op |-> op, pending |-> FALSE, arg |-> arg, ret |-> ret]

AtomCalls ==
    {Pending("encode_decode", [state |-> st, icon |-> icon]) :
        st \in WmStateStates, icon \in Words}
    \cup {Pending("try_from", words) : words \in SeqsUpTo(Words, MaxProp)}
    \cup {Pending("get_wm_state", [exists |-> e, prop |-> p]) :
        e \in BOOLEAN, p \in Properties(Words)}
    \cup {Pending("get_wm_protocols", [exists |-> e, prop |-> p]) :
        e \in BOOLEAN, p \in Properties(ProtocolAtoms)}

InitAtom ==
    /\ stack = <<>>
    /\ focus = None
    /\ drag = None
    /\ keep_going = TRUE
    /\ outcome = "running"
    /\ last \in AtomCalls
    /\ hist = NoHist
    /\ config = [focus_model |-> "Click", overflow_checks |-> FALSE]
    /\ srv = NoServer
    /\ queue = <<>>

IsPending(op) == last.op = op /\ last.pending

\* set_wm_state's encoding handed to WmState::try_from
EncodeDecodeWmState ==
    /\ IsPending("encode_decode")
    /\ last' = Done("encode_decode", last.arg,
                    [words |-> WmState_into_words(last.arg),
                     decoded |-> WmState_try_from(WmState_into_words(last.arg))])
    /\ UNCHANGED <<stack, focus, drag, keep_going, outcome, hist, config, srv, queue>>

DecodeWmState ==
    /\ IsPending("try_from")
    /\ last' = Done("try_from", last.arg, WmState_try_from(last.arg))
    /\ UNCHANGED <<stack, focus, drag, keep_going, outcome, hist, config, srv, queue>>

CallGetWmState ==
    /\ IsPending("get_wm_state")
    /\ last' = Done("get_wm_state", last.arg,
                    get_wm_state(last.arg.exists, last.arg.prop))
    /\ UNCHANGED <<stack, focus, drag, keep_going, outcome, hist, config, srv, queue>>

CallGetWmProtocols ==
    /\ IsPending("get_wm_protocols")
    /\ last' = Done("get_wm_protocols", last.arg,
                    get_wm_protocols(last.arg.exists, last.arg.prop))
    /\ UNCHANGED <<stack, focus, drag, keep_going, outcome, hist, config, srv, queue>>

NextAtom ==
    \/ EncodeDecodeWmState
    \/ DecodeWmState
    \/ CallGetWmState
    \/ CallGetWmProtocols

SpecAtom == InitAtom /\ [][NextAtom]_vars

(***************************************************************************)
(* SpecReg: the registry driven through its operations, each addressed at  *)
(* a tracked window as its contract asks; remove is also called on ids     *)
(* that are not in the stack.                                              *)
(***************************************************************************)
\* the harness's client for a window: the lowest id is override-redirect
HarnessClient(window) ==
    Client(window, IF window = 1 THEN None ELSE Some(TestClientState))

RECURSIVE DistinctStacks(_)
DistinctStacks(n) ==
    IF n = 0 THEN {<<>>}
    ELSE LET shorter == DistinctStacks(n - 1)
         IN  shorter \cup
             {Append(s, HarnessClient(w)) :
                 s \in {t \in shorter : Len(t) = n - 1}, w \in Windows}

InitialStacks == {s \in DistinctStacks(MaxWindows) : Distinct(s)}

InitReg ==
    /\ stack \in InitialStacks
    /\ focus \in {None} \cup {Some(w) : w \in WindowsOf(stack)}
    /\ drag \in {None} \cup {Some(Drag(Move, stack[i].window, 0, 0)) :
                                i \in {j \in 1..Len(stack) : stack[j].state # None}}
    /\ keep_going = TRUE
    /\ outcome = "running"
    /\ last = Idle
    /\ hist = [NoHist EXCEPT !.initial = Len(stack)]
    /\ config = [focus_model |-> "Click", overflow_checks |-> FALSE]
    /\ srv = NoServer
    /\ queue = <<>>

\* what an operation is recorded with: its arguments and the registry before
Called(op, window, sibling) ==
    [op |-> op, window |-> window, sibling |-> sibling,
     stack |-> stack, focus |-> focus, drag |-> drag]

Returned(r) ==
    /\ stack' = r.stack
    /\ focus' = r.focus
    /\ outcome' = IF r.panic THEN "panic" ELSE outcome

RegPush(window) ==
    /\ outcome = "running"
    /\ hist.pushes < MaxPushes
    /\ push_assertion(stack, HarnessClient(window))
    /\ Returned(push(stack, focus, HarnessClient(window)))
    /\ last' = Called("push", window, None)
    /\ hist' = [hist EXCEPT !.pushes = @ + 1]
    /\ UNCHANGED <<drag, keep_going, config, srv, queue>>

RegRemove(window) ==
    /\ outcome = "running"
    /\ hist.removes < MaxRemoves
    /\ Returned(remove(stack, focus, window))
    /\ last' = Called("remove", window, None)
    /\ hist' = IF has_client(stack, window)
               THEN [hist EXCEPT !.removes = @ + 1] ELSE hist
    /\ UNCHANGED <<drag, keep_going, config, srv, queue>>

\* the DestroyNotify handler, which removes only what the registry has
RegDestroyNotify(window) ==
    /\ outcome = "running"
    /\ hist.removes < MaxRemoves
    /\ \E m \in {OnDestroyNotify(Machine, Ev("DestroyNotify", window))} :
           /\ stack' = m.stack
           /\ focus' = m.focus
           /\ drag' = m.drag
           /\ outcome' = m.outcome
           /\ hist' = IF Len(m.stack) < Len(stack)
                      THEN [hist EXCEPT !.removes = @ + 1] ELSE hist
    /\ last' = Called("DestroyNotify", window, None)
    /\ UNCHANGED <<keep_going, config, srv, queue>>

RegMoveToAbove(window, sibling) ==
    /\ outcome = "running"
    /\ has_client(stack, window)
    /\ has_client(stack, sibling)
    /\ window # sibling
    /\ Returned(move_to_above(stack, focus, window, sibling))
    /\ last' = Called("move_to_above", window, Some(sibling))
    /\ UNCHANGED <<drag, keep_going, hist, config, srv, queue>>

RegMoveToBottom(window) ==
    /\ outcome = "running"
    /\ has_client(stack, window)
    /\ Returned(move_to_bottom(stack, focus, window))
    /\ last' = Called("move_to_bottom", window, None)
    /\ UNCHANGED <<drag, keep_going, hist, config, srv, queue>>

RegMoveToTop(window) ==
    /\ outcome = "running"
    /\ has_client(stack, window)
    /\ Returned(move_to_top(stack, focus, window))
    /\ last' = Called("move_to_top", window, None)
    /\ UNCHANGED <<drag, keep_going, hist, config, srv, queue>>

RegSetFocus(window) ==
    /\ outcome = "running"
    /\ set_focus_assertion(stack, window)
    /\ Returned(set_focus(stack, focus, window))
    /\ last' = Called("set_focus", window, None)
    /\ UNCHANGED <<drag, keep_going, hist, config, srv, queue>>

NextReg ==
    \/ \E w \in Windows : RegPush(w)
    \/ \E w \in Windows : RegRemove(w)
    \/ \E w \in Windows : RegDestroyNotify(w)
    \/ \E w \in Windows, s \in Windows : RegMoveToAbove(w, s)
    \/ \E w \in Windows : RegMoveToBottom(w)
    \/ \E w \in Windows : RegMoveToTop(w)
    \/ \E w \in Windows : RegSetFocus(Some(w))
    \/ RegSetFocus(None)

SpecReg == InitReg /\ [][NextReg]_vars

(***************************************************************************)
(* SpecDestroy: the DestroyNotify arm of run() applied to a registry in    *)
(* any state: every order of the windows, each override-redirect, managed  *)
(* and viewable, or managed and not viewable, and any of them focused.     *)
(* The server holds the same windows until one is destroyed.               *)
(***************************************************************************)
ClientKinds == {"override_redirect", "viewable", "hidden"}

KindClient(window, kind) ==
    Client(window,
           IF kind = "override_redirect" THEN None
           ELSE Some([TestClientState EXCEPT !.is_viewable = (kind = "viewable")]))

KindStacks ==
    UNION {{[i \in 1..n |-> KindClient(ws[i], ks[i])] :
               ws \in {f \in [1..n -> Windows] : \A i, j \in 1..n : f[i] = f[j] => i = j},
               ks \in [1..n -> ClientKinds]} : n \in 1..MaxWindows}

\* the server that a registry in this state mirrors
ServerOf(stk, foc) ==
    [stack |-> [i \in 1..Len(stk) |-> stk[i].window],
     win |-> [w \in Windows |->
                 IF ~has_client(stk, w) THEN DeadWin
                 ELSE LET st == get(stk, w).state
                      IN  [DeadWin EXCEPT
                              !.or = (st = None),
                              !.mapped = IF st = None THEN TRUE ELSE st[1].is_viewable,
                              !.selected = (st # None),
                              !.geom = Geom(1, 1, 10, 10)]],
     focus |-> NONE, grab |-> NoGrab, redirect |-> "oxwm"]

InitDestroy ==
    /\ stack \in KindStacks
    /\ focus \in {None} \cup {Some(w) : w \in WindowsOf(stack)}
    /\ drag \in {None} \cup {Some(Drag(Move, stack[i].window, 0, 0)) :
                                i \in {j \in 1..Len(stack) : stack[j].state # None}}
    /\ keep_going = TRUE
    /\ outcome = "running"
    /\ last = Idle
    /\ hist = [NoHist EXCEPT !.initial = Len(stack)]
    /\ config = [focus_model |-> "Click", overflow_checks |-> FALSE]
    /\ srv = ServerOf(stack, focus)
    /\ queue = <<>>

\* the window is destroyed and its DestroyNotify reaches the arm; for a window
\* that was never added, the event of a destruction earlier than its CreateNotify
DestroyArrives(window) ==
    /\ outcome = "running"
    /\ hist.removes < MaxRemoves
    /\ Live(srv, window) \/ ~has_client(stack, window)
    /\ \E m \in {OnDestroyNotify(
                    [Machine EXCEPT !.srv = XDestroyWindow(srv, window).srv],
                    Ev("DestroyNotify", window))} :
           /\ stack' = m.stack
           /\ focus' = m.focus
           /\ drag' = m.drag
           /\ outcome' = m.outcome
           /\ srv' = m.srv
           /\ queue' = queue \o m.events
           /\ last' = [op |-> "DestroyNotify", window |-> window, reqs |-> m.reqs,
                       stack |-> stack, focus |-> focus, drag |-> drag]
    /\ hist' = [hist EXCEPT !.removes = @ + 1]
    /\ UNCHANGED <<keep_going, config>>

NextDestroy ==
    \/ \E w \in Windows : DestroyArrives(w)
    \/ FocusIn

SpecDestroy == InitDestroy /\ [][NextDestroy]_vars

(***************************************************************************)
(* Properties of the registry (SpecReg).                                   *)
(***************************************************************************)
Returns(op) == last.op = op /\ outcome = "running"
Without(stk, window) == SelectSeq(stk, LAMBDA c : c.window # window)
ClientsOf(stk) == {stk[i] : i \in 1..Len(stk)}

\* C1: over any sequence of push, remove and move_to_* calls made as the
\* contract asks, the window ids of the stack are pairwise distinct and the
\* stack's length is the initial length plus the pushes minus the removes.
StackInvariant ==
    /\ \A i, j \in 1..Len(stack) : i # j => stack[i].window # stack[j].window
    /\ Len(stack) = hist.initial + hist.pushes - hist.removes

StackInvariantWitness ==
    /\ hist.pushes >= 1
    /\ hist.removes >= 1
    /\ Returns("move_to_above")
    /\ stack # last.stack
    /\ Len(stack) >= 3

\* C3: remove(w) on a tracked window clears the focus when w was focused and
\* leaves it alone otherwise; exactly w leaves the stack and the others keep
\* their order.
RemoveEffect ==
    (last.op = "remove" /\ \E i \in 1..Len(last.stack) : last.stack[i].window = last.window) =>
        /\ outcome = "running"
        /\ focus = IF last.focus = Some(last.window) THEN None ELSE last.focus
        /\ Len(stack) = Len(last.stack) - 1
        /\ stack = Without(last.stack, last.window)

RemoveEffectWitness ==
    /\ Returns("remove")
    /\ last.focus = Some(last.window)
    /\ focus = None
    /\ Len(stack) >= 2

\* C6: the move operations only reorder: the moved window ends just above
\* the sibling, at index 0, or last; the clients, the order of the others
\* and the focus stay, and a window already in place changes nothing.
MoveEffect ==
    /\ (last.op = "move_to_above") =>
          /\ \E i \in 2..Len(stack) :
                 /\ stack[i].window = last.window
                 /\ stack[i - 1].window = last.sibling[1]
          /\ (\E i \in 2..Len(last.stack) :
                 /\ last.stack[i].window = last.window
                 /\ last.stack[i - 1].window = last.sibling[1])
             => stack = last.stack
    /\ (last.op = "move_to_bottom") =>
          /\ stack[1].window = last.window
          /\ last.stack[1].window = last.window => stack = last.stack
    /\ (last.op = "move_to_top") =>
          /\ stack[Len(stack)].window = last.window
          /\ last.stack[Len(stack)].window = last.window => stack = last.stack
    /\ (last.op \in {"move_to_above", "move_to_bottom", "move_to_top"}) =>
          /\ outcome = "running"
          /\ Len(stack) = Len(last.stack)
          /\ ClientsOf(stack) = ClientsOf(last.stack)
          /\ Without(stack, last.window) = Without(last.stack, last.window)
          /\ focus = last.focus

MoveEffectWitness ==
    /\ Returns("move_to_above")
    /\ Len(stack) >= 3
    /\ stack # last.stack
    /\ stack[2].window = last.window
    /\ focus = Some(last.window)

Missing == last.window \notin WindowsOf(last.stack)
NotDragged == IF last.drag = None THEN TRUE ELSE last.drag[1].window # last.window

\* C4, as stated: removing a window that is not in the stack, by remove or
\* by the DestroyNotify handler, and cancelling the drag of a window that is
\* not dragged leave stack, focus and drag as they were and do not fail.
RemoveMissingIsNoOp ==
    /\ (last.op \in {"remove", "DestroyNotify"} /\ Missing) =>
          /\ outcome = "running"
          /\ stack = last.stack
          /\ focus = last.focus
    /\ (last.op \in {"remove", "DestroyNotify"} /\ NotDragged) => drag = last.drag

\* C4, as the code has it: the DestroyNotify handler of a window that is not
\* in the stack leaves stack and focus as they were and does not fail, and
\* it leaves alone the drag of any other window; remove itself fails on a
\* window that is not in the stack.
DestroyMissingIsNoOp ==
    /\ (last.op = "DestroyNotify" /\ Missing) =>
          /\ outcome = "running"
          /\ stack = last.stack
          /\ focus = last.focus
    /\ (last.op = "DestroyNotify" /\ NotDragged) => drag = last.drag
    /\ (last.op = "remove" /\ Missing) => outcome = "panic"

DestroyMissingIsNoOpWitness ==
    /\ Returns("DestroyNotify")
    /\ Missing
    /\ drag # None
    /\ focus # None
    /\ Len(stack) >= 2

(***************************************************************************)
(* Properties of the manager (Spec).                                       *)
(***************************************************************************)
Ids(stk) == [i \in 1..Len(stk) |-> stk[i].window]

\* a step of the loop that handles an event of this type
Handles(type) == Takes(type) /\ hist' = hist

\* C2: in every state of the manager, after startup and after every handler
\* that returns, the cached focus is None or a window of the stack, and never
\* the root.
FocusTracked ==
    outcome # "panic" =>
        /\ IF focus = None THEN TRUE ELSE focus[1] \in WindowsOf(stack)
        /\ focus # Some(Root)
        /\ Root \notin WindowsOf(stack)

FocusTrackedWitness ==
    /\ outcome = "running"
    /\ last.op = "FocusIn"
    /\ focus = Some(last.ev.window)
    /\ Len(stack) >= 2

\* the events that tell the manager of the server's top-level windows
Restacking == {"CreateNotify", "ConfigureNotify", "DestroyNotify"}
Settled == \A i \in 1..Len(queue) : queue[i].type \notin Restacking

SameSeq(a, b) == Len(a) = Len(b) /\ \A i \in 1..Len(a) : a[i] = b[i]

\* the windows that a and b share come in the same order in both
KeepsOrder(a, b) ==
    \A i, j \in 1..Len(a) :
        i < j => \A k, l \in 1..Len(b) : (b[k] = a[i] /\ b[l] = a[j]) => k < l

Placed(ids, ev) ==
    IF ev.above_sibling = NONE THEN ids[1] = ev.window
    ELSE \E i \in 2..Len(ids) : ids[i] = ev.window /\ ids[i - 1] = ev.above_sibling

StackMirrorsServer == (outcome = "running" /\ Settled) => SameSeq(Ids(stack), srv.stack)

StackOrderStep ==
    /\ ~Handles("ConfigureNotify") => KeepsOrder(Ids(stack), Ids(stack'))
    /\ (Handles("ConfigureNotify") /\ outcome' = "running") =>
          /\ Placed(Ids(stack'), Head(queue))
          /\ KeepsOrder(Ids(Without(stack, Head(queue).window)), Ids(stack'))

\* C5: when no CreateNotify, ConfigureNotify or DestroyNotify is waiting, the
\* stack lists the server's top-level windows in the server's order, bottom
\* first; and only the handling of a ConfigureNotify reorders it, to the
\* bottom for above_sibling = NONE and to just above the sibling otherwise.
StackFollowsServer == []StackMirrorsServer /\ [][StackOrderStep]_vars

\* a raise has been requested and granted, and the stack has not followed yet
StackFollowsServerWitness ==
    /\ outcome = "running"
    /\ last.op = "ButtonPress"
    /\ Len(stack) >= 2
    /\ SameSeq(Ids(stack), srv.stack) = FALSE
    /\ srv.stack[Len(srv.stack)] = last.ev.window
    /\ \E i \in 1..Len(queue) :
           queue[i].type = "ConfigureNotify" /\ queue[i].window = last.ev.window

Geometry(st) == <<st.x, st.y, st.width, st.height>>

GeometryStep ==
    \A w \in Windows :
        (/\ w \in WindowsOf(stack)
         /\ w \in WindowsOf(stack')
         /\ get(stack, w).state # None
         /\ get(stack', w).state # None
         /\ Geometry(get(stack', w).state[1]) # Geometry(get(stack, w).state[1]))
        => (Handles("ConfigureNotify") /\ Head(queue).window = w)

\* C7: the cached x, y, width and height of a managed client change only in
\* the handling of a ConfigureNotify of its window.
GeometryOnlyFromConfigureNotify == [][GeometryStep]_vars

\* a motion of a drag has moved the window at the server, not in the cache
GeometryOnlyFromConfigureNotifyWitness ==
    /\ outcome = "running"
    /\ last.op = "MotionNotify"
    /\ Len(last.reqs) = 1
    /\ last.ev.window \in WindowsOf(stack)
    /\ get(stack, last.ev.window).state # None
    /\ get(stack, last.ev.window).state[1].x # srv.win[last.ev.window].geom.x
    /\ srv.win[last.ev.window].geom.x = last.reqs[1].aux.x[1]

\* the requests of the last turn (of startup, in the first state) by name
At(name) == {i \in 1..Len(last.reqs) : last.reqs[i].req = name}
Before(A, B) == \A i \in A, j \in B : i < j
RootMasks(mask) ==
    {i \in At("change_window_attributes") :
        last.reqs[i].window = Root /\ last.reqs[i].event_mask = mask}
Started == last.op = "init" /\ outcome = "running"

\* C11: a startup that succeeds acquires the server grab first, then queries
\* the root's children and loads them, then selects substructure-redirect on
\* the root, then sets the full root mask, grabs every bound key and spawns
\* the startup programs, and releases the server grab last, before the loop
\* waits for its first event; the grab is acquired once and released once,
\* and no handler acquires or releases it again.
StartupOrder ==
    /\ Started =>
          LET redirect == RootMasks({"SUBSTRUCTURE_REDIRECT"})
              rest == RootMasks({"SUBSTRUCTURE_NOTIFY", "SUBSTRUCTURE_REDIRECT"})
                         \cup At("grab_key") \cup At("spawn")
          IN  /\ At("grab_server") = {1}
              /\ At("ungrab_server") = {Len(last.reqs)}
              /\ Cardinality(At("query_tree")) = 1
              /\ Cardinality(redirect) = 1
              /\ Before(At("grab_server"), At("query_tree"))
              /\ Before(At("query_tree"), redirect)
              /\ Before(redirect, rest)
              /\ Before(rest, At("ungrab_server"))
              /\ RootMasks({"SUBSTRUCTURE_NOTIFY", "SUBSTRUCTURE_REDIRECT"}) # {}
              /\ {last.reqs[i].key : i \in At("grab_key")} = Keybinds
              /\ {last.reqs[i].program : i \in At("spawn")}
                    = {StartupPrograms[i] : i \in 1..Len(StartupPrograms)}
              /\ hist.inputs = 0 => Ids(stack) = srv.stack
    /\ last.op # "init" => At("grab_server") \cup At("ungrab_server") = {}

StartupOrderWitness ==
    /\ Started
    /\ Len(stack) = 2
    /\ At("configure_window") # {}
    /\ At("ungrab_server") # {}

\* C12: when another client has substructure-redirect on the root, startup
\* ends with an error: it has installed no button grab and no key grab,
\* configured no window and spawned no program, and the loop handles no event.
AbortsWhenNotManager ==
    srv.redirect = "other" =>
        /\ last.op = "init"
        /\ outcome = "err"
        /\ At("grab_buttons_and_select") = {}
        /\ At("grab_key") = {}
        /\ At("configure_window") = {}
        /\ At("spawn") = {}

AbortsWhenNotManagerWitness ==
    /\ srv.redirect = "other"
    /\ outcome = "err"
    /\ RootMasks({"SUBSTRUCTURE_REDIRECT"}) # {}
    /\ \E i \in 1..Len(stack) : stack[i].state # None

\* a window the registry tracks without state (override-redirect)
Unmanaged(w) ==
    IF has_client(stack, w) THEN get(stack, w).state = None ELSE FALSE

IsPolicy(r) ==
    \/ r.req = "grab_buttons_and_select"
    \/ r.req = "change_property"
    \/ IF r.req = "configure_window"
       THEN r.aux.width # None \/ r.aux.height # None
       ELSE FALSE

\* C13: neither startup nor any handler issues a button grab, a configure
\* request with a size, or a WM_STATE write for a window whose client has
\* state None.
PolicyOnlyForManaged ==
    \A i \in 1..Len(last.reqs) :
        IsPolicy(last.reqs[i]) => ~Unmanaged(last.reqs[i].window)

\* the size bounds of a client: its hints, or the defaults
MinOf(st) ==
    IF st.wm_normal_hints.min_size = None THEN <<128, 128>>
    ELSE st.wm_normal_hints.min_size[1]
MaxOf(st) ==
    IF st.wm_normal_hints.max_size = None THEN <<16384, 16384>>
    ELSE st.wm_normal_hints.max_size[1]
Within(v, lo, hi) == IF v < lo THEN lo ELSE IF v > hi THEN hi ELSE v
Sized(aux, st) ==
    [aux EXCEPT
        !.width = IF @ = None THEN None
                  ELSE Some(Within(@[1], MinOf(st)[1], MaxOf(st)[1])),
        !.height = IF @ = None THEN None
                   ELSE Some(Within(@[1], MinOf(st)[2], MaxOf(st)[2]))]

\* C15: the configure issued for a ConfigureRequest on a window that is not
\* override-redirect carries the requested width and height clamped to the
\* client's bounds and every other field as requested; for an
\* override-redirect window it carries the request unchanged.
ConfigureRequestClamps ==
    (last.op = "ConfigureRequest" /\ has_client(stack, last.ev.window)) =>
        LET client == get(stack, last.ev.window)
        IN  /\ outcome = "running"
            /\ last.reqs =
                  <<ConfigureReq(last.ev.window,
                                 IF client.state = None THEN last.ev.aux
                                 ELSE Sized(last.ev.aux, client.state[1]))>>

\* the drag that was active when the last handler began, on this window
DraggedBefore(w) ==
    IF last.drag = None THEN FALSE ELSE last.drag[1].window = w

\* C17: when DestroyNotify arrives for the window of an active move drag
\* before any ButtonRelease, the handler leaves no drag active; and a
\* MotionNotify turn issues a configure request only for the window of the
\* drag that is active, which the registry still tracks, so none is issued
\* for the destroyed window afterwards.
DragEndsWithWindow ==
    /\ (last.op = "DestroyNotify" /\ outcome = "running"
            /\ DraggedBefore(last.ev.window)) => drag = None
    /\ (last.op = "MotionNotify" /\ last.reqs # <<>>) =>
          /\ Len(last.reqs) = 1
          /\ DraggedBefore(last.reqs[1].window)
          /\ drag = last.drag
          /\ has_client(stack, last.reqs[1].window)

DragEndsWithWindowWitness ==
    /\ last.op = "DestroyNotify"
    /\ outcome = "running"
    /\ DraggedBefore(last.ev.window)
    /\ last.drag[1].type_ = Move
    /\ drag = None
    /\ ~has_client(stack, last.ev.window)

\* the drag a ButtonPress with the modifier begins, by its button
Begins(d, ev) ==
    IF d = None THEN FALSE
    ELSE /\ d[1].window = ev.window
         /\ IF ev.detail = 1 THEN d[1].type_ = Move
            ELSE ev.detail = 3 /\ d[1].type_[1] = "Resize"

\* The drag changes only in three ways: a ButtonPress handler sets it,
\* for a press that carries the modifier, to a Move (button 1) or a Resize
\* (button 3) of the event's window; every ButtonRelease handler clears it;
\* and the DestroyNotify handler clears it for the dragged window.  No other
\* step changes it.
DragStep ==
    /\ drag' # drag =>
          \/ Handles("ButtonPress") /\ Head(queue).mod /\ Begins(drag', Head(queue))
          \/ Handles("ButtonRelease") /\ drag' = None
          \/ /\ Handles("DestroyNotify")
             /\ drag[1].window = Head(queue).window
             /\ drag' = None
    /\ Handles("ButtonRelease") => drag' = None
    /\ (Handles("DestroyNotify") /\ outcome' = "running" /\ drag # None) =>
          drag' = clear_drag(drag, Head(queue).window)

\* C18: every step of the program changes the drag in one of the three ways of
\* DragStep (a modifier press sets it, a release clears it, the destruction of
\* the dragged window clears it) and in no other way.
DragLifecycle == [][DragStep]_vars

DragLifecycleWitness ==
    /\ last.op = "ButtonRelease"
    /\ outcome = "running"
    /\ last.drag # None
    /\ last.drag[1].type_ # Move
    /\ drag = None

\* the configure request of the manage step for a window of this cached state
ManageConfigures(w, st) ==
    \E j \in At("configure_window") :
        /\ last.reqs[j].window = w
        /\ last.reqs[j].aux =
              Aux(None, None,
                  Some(Within(st.width, MinOf(st)[1], MaxOf(st)[1])),
                  Some(Within(st.height, MinOf(st)[2], MaxOf(st)[2])),
                  None, None)

\* the managed windows of the last turn's manage steps: all that were loaded
\* at startup, or the one a CreateNotify announced
JustManaged ==
    {i \in 1..Len(stack) :
        /\ stack[i].state # None
        /\ last.op = "CreateNotify" => stack[i].window = last.ev.window}

\* C14: the manage step of a managed window, at startup and on CreateNotify,
\* issues a configure request with the window's width clamped to
\* [min_width, max_width] and its height to [min_height, max_height], the
\* bounds taken from the min_size / max_size hints or else 128 and 16384; a
\* 50x50 window with min_size (256, 256) is configured to 256x256.
ManageClamps ==
    (last.op \in {"init", "CreateNotify"} /\ outcome = "running"
        /\ (last.op = "init" => hist.inputs = 0)) =>
        \A i \in JustManaged : ManageConfigures(stack[i].window, stack[i].state[1])

ManageClampsWitness ==
    /\ Started
    /\ hist.inputs = 0
    /\ Len(stack) = 1
    /\ stack[1].state # None
    /\ stack[1].state[1].width = 50
    /\ stack[1].state[1].wm_normal_hints.min_size = Some(<<256, 256>>)
    /\ \E j \in At("configure_window") :
          /\ last.reqs[j].aux.width = Some(256)
          /\ last.reqs[j].aux.height = Some(256)
    /\ srv.win[1].geom.width = 256

\* a MotionNotify handler starts on a resize drag of a client whose cached
\* geometry is the server's
ResizeSample ==
    /\ Handles("MotionNotify")
    /\ drag # None
    /\ drag[1].type_ # Move
    /\ has_client(stack, drag[1].window)
    /\ get(stack, drag[1].window).state # None
    /\ LET g == srv.win[drag[1].window].geom
       IN  Geometry(get(stack, drag[1].window).state[1])
              = <<g.x, g.y, g.width, g.height>>

Corner == drag[1].type_[2]

\* Each sample of a resize drag requests a geometry that leaves the
\* corner opposite the dragged one where it is: the right edge for a left
\* corner, the left edge for a right one, the bottom edge for a top corner
\* and the top edge for a bottom one.
CornerPinStep ==
    (ResizeSample /\ outcome' = "running") =>
        LET st == get(stack, drag[1].window).state[1]
            cfg == last'.reqs[1].aux
            x == OrElse(cfg.x, st.x)
            y == OrElse(cfg.y, st.y)
            width == OrElse(cfg.width, st.width)
            height == OrElse(cfg.height, st.height)
        IN  /\ IF Corner \in {"LeftTop", "LeftBottom"}
               THEN x + width = st.x + st.width ELSE x = st.x
            /\ IF Corner \in {"LeftTop", "RightTop"}
               THEN y + height = st.y + st.height ELSE y = st.y

\* C19: every sample of a resize drag leaves the edges opposite the dragged
\* corner where they were (CornerPinStep holds of every step).
CornerPin == [][CornerPinStep]_vars

\* For each resize corner and every sample, the width computed before
\* increment snapping lies in [min_width, max_width] and the height in
\* [min_height, max_height], the bounds from the hints or the defaults.
SizeBoundsStep ==
    ResizeSample =>
        LET st == get(stack, drag[1].window).state[1]
            cfg == drag_config(st, drag[1], Head(queue))
        IN  /\ cfg.width # None
            /\ cfg.height # None
            /\ MinOf(st)[1] <= cfg.width[1] /\ cfg.width[1] <= MaxOf(st)[1]
            /\ MinOf(st)[2] <= cfg.height[1] /\ cfg.height[1] <= MaxOf(st)[2]

\* C20: every sample of a resize drag computes a width and a height within
\* the client's minimum and maximum sizes (SizeBoundsStep holds of every step).
SizeBounds == [][SizeBoundsStep]_vars

\* the managed viewable clients of the registry other than `window`, by index
Candidates(stk, window) ==
    {i \in 1..Len(stk) :
        /\ stk[i].window # window
        /\ stk[i].state # None
        /\ stk[i].state[1].is_viewable}

\* the highest of them
Topmost(stk, window) ==
    stk[CHOOSE i \in Candidates(stk, window) :
            \A j \in Candidates(stk, window) : j <= i].window

OnGrid(v, size, base, inc) ==
    /\ inc > 0
    /\ base <= v
    /\ v <= size
    /\ (v - base) % inc = 0
    /\ size < v + inc

Snaps(st) ==
    /\ st.wm_normal_hints.base_size # None
    /\ st.wm_normal_hints.size_increment # None

SnapStep ==
    (ResizeSample /\ Snaps(get(stack, drag[1].window).state[1])) =>
        LET st == get(stack, drag[1].window).state[1]
            base == st.wm_normal_hints.base_size[1]
            inc == st.wm_normal_hints.size_increment[1]
            clamped == drag_config(st, drag[1], Head(queue))
        IN  /\ outcome' = "running"
            /\ LET cfg == last'.reqs[1].aux
               IN  /\ OnGrid(cfg.width[1], clamped.width[1], base[1], inc[1])
                   /\ OnGrid(cfg.height[1], clamped.height[1], base[2], inc[2])

\* C21: with a base size and a resize increment in the hints, every sample of
\* a resize drag is handled without failure and requests, on each axis, the
\* size base + k*increment for the largest k >= 0 that does not exceed the
\* clamped size.
ResizeIncrement == [][SnapStep]_vars

RequestFailureContinues == last.op # "init" => outcome # "err"

KillsManaged ==
    /\ Handles("KeyPress")
    /\ Head(queue).detail = KeyKill
    /\ has_client(stack, Head(queue).child)
    /\ get(stack, Head(queue).child).state # None

KillStep ==
    KillsManaged =>
        LET window == Head(queue).child
            reqs == last'.reqs
        IN  /\ Len(reqs) = 1
            /\ reqs[1].window = window
            /\ IF get(stack, window).state[1].wm_protocols.delete_window
               THEN /\ reqs[1].req = "send_event"
                    /\ reqs[1].type_ = wm_protocols
                    /\ reqs[1].format = 32
                    /\ reqs[1].data[1] = wm_delete_window
               ELSE reqs[1].req = "kill_client"

\* C24: killing a managed client issues exactly one request, chosen by the
\* cached WM_PROTOCOLS: with delete_window set, a client message of type
\* WM_PROTOCOLS, format 32, first data word WM_DELETE_WINDOW, sent to the
\* window, and no kill_client; otherwise kill_client and no message.
KillPolicy == [][KillStep]_vars

KillPolicyWitness ==
    /\ last.op = "KeyPress"
    /\ last.ev.detail = KeyKill
    /\ Len(last.reqs) = 1
    /\ last.reqs[1].req = "send_event"
    /\ outcome = "running"

Quits == Handles("KeyPress") /\ Head(queue).detail = KeyQuit

ShutdownStep ==
    /\ keep_going' # keep_going => Quits
    /\ Quits => /\ ~keep_going'
                /\ outcome' = "running"
                /\ queue' = Tail(queue)
    /\ ~keep_going =>
          /\ <<stack, focus, drag, last, srv.focus>>' = <<stack, focus, drag, last, srv.focus>>
          /\ Len(queue') >= Len(queue)
          /\ SubSeq(queue', 1, Len(queue)) = queue
          /\ outcome' \in {"running", "ok"}
          /\ outcome = "running" => ENABLED Exit
    /\ (outcome' = "ok" /\ outcome # "ok") => ~keep_going

\* C25: the flag keep_going is cleared only by the quit key action; the turn
\* that clears it completes; after that no event is read or dispatched (the
\* queue only grows and the manager's state stays), run() can only return Ok,
\* and it returns Ok only with the flag cleared.
CooperativeShutdown == [][ShutdownStep]_vars

CooperativeShutdownWitness ==
    /\ outcome = "ok"
    /\ ~keep_going
    /\ last.op = "KeyPress"
    /\ queue # <<>>

\* C26: after the DestroyNotify arm has run for a window, whether it was
\* focused, dragged or tracked at all, the window is not in the stack, the
\* cached focus is not the window and no drag refers to it; a drag of another
\* window stays, and the other clients stay as they were, in their order.
DestroyCleansUp ==
    (last.op = "DestroyNotify" /\ outcome = "running") =>
        /\ ~has_client(stack, last.window)
        /\ focus # Some(last.window)
        /\ drag # None => drag[1].window # last.window
        /\ (last.drag # None /\ last.drag[1].window # last.window) => drag = last.drag
        /\ stack = Without(last.stack, last.window)

DestroyCleansUpWitness ==
    /\ last.op = "DestroyNotify"
    /\ outcome = "running"
    /\ Len(last.stack) >= 2
    /\ last.focus = Some(last.window)
    /\ last.drag # None
    /\ last.drag[1].window = last.window

PlainClickStep ==
    (Handles("ButtonPress") /\ ~Head(queue).mod /\ outcome' = "running") =>
        LET window == Head(queue).window
            reqs == last'.reqs
        IN  /\ Len(reqs) = 3
            /\ reqs[1] = Req("set_input_focus", window)
            /\ reqs[2].req = "configure_window"
            /\ reqs[2].window = window
            /\ reqs[2].aux = Aux(None, None, None, None, None, Some("Above"))
            /\ reqs[3].req = "allow_events"
            /\ reqs[3].mode = "REPLAY_POINTER"
            /\ drag' = drag

\* C27: a ButtonPress without the modifier makes the manager send, in this
\* order, set_input_focus and a raise (configure_window with stack mode Above)
\* for the event window and then allow_events with replay-pointer; the drag
\* state stays as it was, set or not.
PlainClick == [][PlainClickStep]_vars

PlainClickWitness ==
    /\ last.op = "ButtonPress"
    /\ ~last.ev.mod
    /\ outcome = "running"
    /\ last.drag # None
    /\ drag = last.drag

BeginDragStep ==
    (/\ Handles("ButtonPress")
     /\ Head(queue).mod
     /\ Head(queue).detail \in {1, 3}
     /\ outcome' = "running") =>
        LET ev == Head(queue)
            st == get(stack, ev.window).state[1]
            at_left == ev.event_x < st.width \div 2
            at_top == ev.event_y < st.height \div 2
            corner == IF at_left THEN (IF at_top THEN "LeftTop" ELSE "LeftBottom")
                      ELSE (IF at_top THEN "RightTop" ELSE "RightBottom")
        IN  /\ drag' # None
            /\ drag'[1].window = ev.window
            /\ IF ev.detail = 1
               THEN /\ drag'[1].type_ = Move
                    /\ drag'[1].x = ev.event_x
                    /\ drag'[1].y = ev.event_y
               ELSE /\ drag'[1].type_ = Resize(corner)
                    /\ drag'[1].x = ev.event_x - (IF at_left THEN 0 ELSE st.width)
                    /\ drag'[1].y = ev.event_y - (IF at_top THEN 0 ELSE st.height)

\* C28: a press with the modifier and button 3 starts a resize by the corner
\* found by comparing the press position inside the window with the midpoint
\* of the cached size on each axis (left of width/2: left, above height/2:
\* top), with the anchor the press position minus that corner's position in
\* the window; button 1 starts a move with the anchor the press position
\* relative to the top-left corner.
BeginDragCorner == [][BeginDragStep]_vars

BeginDragCornerWitness ==
    /\ last.op = "ButtonPress"
    /\ outcome = "running"
    /\ drag # None
    /\ drag[1].type_ = Resize("RightTop")
    /\ last.ev.event_x = get(stack, 1).state[1].width \div 2
    /\ drag[1].x = 0 - (get(stack, 1).state[1].width \div 2)

MoveSampleStep ==
    (/\ Handles("MotionNotify")
     /\ drag # None
     /\ drag[1].type_ = Move
     /\ outcome' = "running") =>
        LET ev == Head(queue)
            d == drag[1]
            before == srv.win[d.window].geom
            after == srv'.win[d.window].geom
        IN  /\ last'.reqs =
                  <<ConfigureReq(d.window,
                                 Aux(Some(ev.root_x - d.x), Some(ev.root_y - d.y),
                                     None, None, None, None))>>
            /\ after.width = before.width
            /\ after.height = before.height
            /\ ev.root_x - after.x = d.x
            /\ ev.root_y - after.y = d.y
            /\ drag' = drag

\* C29: every sample of a move drag sends one configure request for the
\* dragged window with x = root_x - anchor_x, y = root_y - anchor_y and no
\* width or height: the window keeps its size, the pointer is at the anchor
\* offset inside the moved window, and the anchor stays for the next sample.
MoveFollowsPointer == [][MoveSampleStep]_vars

MoveFollowsPointerWitness ==
    /\ last.op = "MotionNotify"
    /\ outcome = "running"
    /\ last.drag # None
    /\ last.drag[1].type_ = Move
    /\ last.drag[1].x # 0
    /\ srv.win[1].geom.x = last.ev.root_x - last.drag[1].x
    /\ srv.win[1].geom.x # 100

\* what Clients::new builds from the server's windows
Loaded ==
    /\ Ids(stack) = srv.stack
    /\ \A i \in 1..Len(stack) :
          LET w == srv.win[stack[i].window]
          IN  IF w.or THEN stack[i].state = None
              ELSE /\ stack[i].state # None
                   /\ stack[i].state[1].is_viewable = w.mapped
    /\ focus = IF \E i \in 1..Len(stack) : stack[i].window = srv.focus
               THEN Some(srv.focus) ELSE None

\* C30: start-up builds the stack in the server's order of the root's
\* children, with state None exactly for the override-redirect windows and a
\* full state for the others, takes the server's input focus as the focus if
\* it names a window of the stack and None otherwise, and completes, whatever
\* mix of override-redirect and other windows exists (no other manager
\* running).
BulkLoad ==
    (last.op = "init" /\ hist.inputs = 0 /\ srv.redirect # "other") =>
        /\ Loaded
        /\ outcome = "running"

UnmapStep ==
    Handles("UnmapNotify") =>
        LET window == Head(queue).window
        IN  /\ outcome' = "running"
            /\ focus' = IF focus = Some(window) THEN None ELSE focus
            /\ last'.reqs = <<[req |-> "change_property", window |-> window,
                               property |-> wm_state, value |-> <<0, 0>>]>>

\* C31: the UnmapNotify arm clears the cached focus if it is the event's
\* window and leaves it otherwise; in both cases it writes WM_STATE =
\* Withdrawn (state 0, icon none) for the window, and the loop goes on whether
\* or not the server accepts the write.
UnmapWithdraws == [][UnmapStep]_vars

UnmapWithdrawsWitness ==
    /\ last.op = "UnmapNotify"
    /\ outcome = "running"
    /\ ~Live(srv, last.ev.window)
    /\ focus = None

FocusStep ==
    /\ Handles("FocusIn") =>
          /\ outcome' = "running"
          /\ focus' = Some(Head(queue).window)
    /\ Handles("FocusOut") =>
          /\ outcome' = "running"
          /\ focus' = None
    /\ focus' # focus =>
          \/ Handles("FocusIn")
          \/ Handles("FocusOut")
          \/ (Handles("UnmapNotify") \/ Handles("DestroyNotify")) /\ focus' = None

\* C32: the cached focus follows the focus events in the order of their
\* delivery: the FocusIn arm sets it to the event's window and the FocusOut arm
\* to None; a set_input_focus request of the manager does not change it (apart
\* from the clearing on UnmapNotify and DestroyNotify, only these two arms
\* write it), so it changes when the server's FocusIn is processed.
FocusFollowsEvents == [][FocusStep]_vars

\* the server moved the focus from one managed window to the other on the
\* manager's request, and both events have been processed
FocusFollowsEventsWitness ==
    /\ last.op = "FocusIn"
    /\ outcome = "running"
    /\ queue = <<>>
    /\ focus = Some(last.ev.window)
    /\ srv.focus = last.ev.window
    /\ hist.inputs >= 2

MapStep ==
    (Handles("MapNotify") /\ outcome' = "running") =>
        LET window == Head(queue).window
        IN  /\ Ids(stack') = Ids(stack)
            /\ \A i \in 1..Len(stack) :
                  IF stack[i].window = window /\ stack[i].state # None
                  THEN stack'[i].state =
                          Some([stack[i].state[1] EXCEPT !.is_viewable = TRUE])
                  ELSE stack'[i] = stack[i]
            /\ focus' = focus
            /\ drag' = drag
            /\ last'.reqs = <<[req |-> "change_property", window |-> window,
                               property |-> wm_state, value |-> <<1, 0>>]>>

\* C33: the MapNotify arm sets the cached is_viewable of the event's window
\* to true and writes WM_STATE = Normal (state 1, icon none) for it; the order
\* of the stack, the focus, the geometry and every other field of the client,
\* and the other clients stay as they were.
MapMarksViewable == [][MapStep]_vars

MapMarksViewableWitness ==
    /\ last.op = "MapNotify"
    /\ outcome = "running"
    /\ Len(stack) >= 2
    /\ has_client(stack, last.ev.window)
    /\ get(stack, last.ev.window).state # None
    /\ get(stack, last.ev.window).state[1].is_viewable
    /\ get(stack, last.ev.window).state[1].wm_state = Some([state |-> "Withdrawn", icon |-> NONE])

\* C35: with every delivered event processed, the cached is_viewable of a
\* managed client is the server's map state of its window: true after a
\* MapNotify, false after an UnmapNotify.
ViewableMirrorsServer ==
    (outcome = "running" /\ queue = <<>>) =>
        \A i \in 1..Len(stack) :
            (stack[i].state # None /\ Live(srv, stack[i].window)) =>
                stack[i].state[1].is_viewable = srv.win[stack[i].window].mapped

\* C36: a handler that takes a ConfigureNotify or a ConfigureRequest for a
\* window the registry does not hold leaves the manager running and the stack
\* as it was, whatever the order in which the server delivered the events.
UntrackedHandled ==
    [][(/\ \/ Handles("ConfigureNotify")
           \/ Handles("ConfigureRequest")
        /\ ~has_client(stack, Head(queue).window))
       => (outcome' = "running" /\ stack' = stack)]_vars

\* C37: a MotionNotify taken while no drag is active sends no request, leaves
\* the registry, the focus and the drag as they were, and the loop goes on.
IdleMotionIgnored ==
    [][(Handles("MotionNotify") /\ drag = None)
       => /\ outcome' = "running"
          /\ keep_going'
          /\ last'.reqs = <<>>
          /\ stack' = stack
          /\ focus' = focus
          /\ drag' = None]_vars

\* C38: in every reachable state of the running manager, a drag that is
\* active names a window that is in the stack and whose client record is
\* managed (its state is not None).
DragTargetManaged ==
    (outcome # "panic" /\ drag # None) =>
        /\ has_client(stack, drag[1].window)
        /\ get(stack, drag[1].window).state # None

\* a drag is running on a managed window while another window has just been
\* destroyed and removed
DragTargetManagedWitness ==
    /\ outcome = "running"
    /\ drag # None
    /\ last.op = "DestroyNotify"
    /\ has_client(stack, drag[1].window)
    /\ ~has_client(stack, last.ev.window)

\* C39: the kill key pressed over the background (child 0) or over a window
\* that has no managed client in the registry sends no request, changes no
\* state of the manager and leaves it running.
KillIgnoresUnmanaged ==
    [][(/\ Handles("KeyPress")
        /\ Head(queue).detail = KeyKill
        /\ \/ Head(queue).child = NONE
           \/ ~has_client(stack, Head(queue).child)
           \/ get(stack, Head(queue).child).state = None)
       => /\ outcome' = "running"
          /\ keep_going'
          /\ last'.reqs = <<>>
          /\ stack' = stack
          /\ focus' = focus
          /\ drag' = drag]_vars

(***************************************************************************)
(* Properties of the two threads of bin/oxwm (SpecCtl).                    *)
(***************************************************************************)
LockedPcs == {"get_mut", "remove", "unlock"} \cup {Fields[i] : i \in 1..Len(Fields)}

\* the main thread holds the mutex exactly inside a handler, never at
\* wait_for_event, the RPC thread exactly while it copies; the two threads
\* never both wait for the mutex while it is held; and with the mutex not in
\* the main thread's hands the clients are what the last complete handler
\* left
MutexDiscipline ==
    /\ last.mutex = "loop" <=> last.loop.pc \in LockedPcs
    /\ last.mutex = "rpc" <=> last.rpc.pc = "clone"
    /\ ~(last.loop.pc = "lock" /\ last.rpc.pc = "lock" /\ last.mutex # "free")
    /\ last.mutex # "loop" => stack = hist.committed

\* a copy made by ls is the clients between two complete handler executions
SnapshotStep ==
    last'.rpc.snapshot # last.rpc.snapshot =>
        last'.rpc.snapshot = Some(hist.committed)

\* C34: the event loop holds the state mutex only inside a handler and has
\* released it when it waits for the next event, ls copies the state under the
\* same mutex, so that the threads cannot deadlock, ls waits at most for the
\* handler in progress, and every snapshot is the state between two complete
\* handler executions.
SnapshotsAreAtomic == []MutexDiscipline /\ [][SnapshotStep]_vars

\* ls waits for the mutex while a ConfigureNotify handler has written some of
\* the fields of a client
SnapshotsAreAtomicWitness ==
    /\ last.rpc.pc = "lock"
    /\ last.mutex = "loop"
    /\ last.loop.pc = "width"
    /\ stack # hist.committed

\* C40: the manager keeps running, and once every event has been handled the
\* keys of the snapshot map are the windows created and not yet destroyed.
KeysAreLiveWindows ==
    /\ outcome = "running"
    /\ (queue = <<>> /\ last.loop.pc = "wait") =>
           DOMAIN stack = {w \in Windows : Live(srv, w)}

(***************************************************************************)
(* Properties of the codecs (SpecAtom).                                    *)
(***************************************************************************)
Returned_(op) == last.op = op /\ ~last.pending

\* C8: a WmState encoded to its two words (Withdrawn 0, Normal 1, Iconic 3,
\* then the icon) and decoded again is the same WmState.
WmStateRoundTrip ==
    Returned_("encode_decode") =>
        /\ last.ret.words =
               <<CASE last.arg.state = "Withdrawn" -> 0
                   [] last.arg.state = "Normal" -> 1
                   [] last.arg.state = "Iconic" -> 3,
                 last.arg.icon>>
        /\ last.ret.decoded = Ok(last.arg)

WmStateRoundTripWitness ==
    /\ Returned_("encode_decode")
    /\ last.arg.state = "Iconic"
    /\ last.arg.icon > 0
    /\ last.ret.decoded.ok

\* C9: decoding fails for a state word outside {0, 1, 3} (2 included) and
\* for a payload that is not two words; get_wm_state then answers None, not
\* an error, as it does for an absent property.
WmStateDecodeFailure ==
    /\ Returned_("try_from") =>
          ((IF Len(last.arg) = 2 THEN last.arg[1] \notin {0, 1, 3} ELSE TRUE)
              => last.ret = Err)
    /\ (Returned_("get_wm_state") /\ last.arg.exists) =>
          LET payload == IF last.arg.prop = None THEN <<>>
                         ELSE SubSeq(last.arg.prop[1], 1, Min(2, Len(last.arg.prop[1])))
          IN  (IF last.arg.prop = None THEN TRUE
               ELSE IF Len(payload) = 2 THEN payload[1] \notin {0, 1, 3}
               ELSE TRUE)
              => last.ret = Ok(None)

WmStateDecodeFailureWitness ==
    /\ Returned_("get_wm_state")
    /\ last.arg.exists
    /\ last.arg.prop = Some(<<2, 0>>)
    /\ last.ret = Ok(None)

\* C10: take_focus is set exactly when the list holds WM_TAKE_FOCUS and
\* delete_window exactly when it holds WM_DELETE_WINDOW, whatever the order
\* and the repeats; WM_SAVE_YOURSELF and unknown atoms set nothing and are
\* no error; an absent property gives both flags false.
WmProtocolsDecode ==
    (Returned_("get_wm_protocols") /\ last.arg.exists) =>
        LET atoms == IF last.arg.prop = None THEN <<>> ELSE last.arg.prop[1]
        IN  last.ret =
                Ok([take_focus |->
                        \E i \in 1..Len(atoms) : atoms[i] = "WM_TAKE_FOCUS",
                    delete_window |->
                        \E i \in 1..Len(atoms) : atoms[i] = "WM_DELETE_WINDOW"])

WmProtocolsDecodeWitness ==
    /\ Returned_("get_wm_protocols")
    /\ last.arg.exists
    /\ last.arg.prop = Some(<<"WM_SAVE_YOURSELF", "WM_DELETE_WINDOW", "_NET_WM_PING">>)
    /\ last.ret = Ok([take_focus |-> FALSE, delete_window |-> TRUE])

====
